---- MODULE Spec2Model ----
(***************************************************************************)
(* Model of csctf (src/src/index.ts): the scrape orchestrator with its     *)
(* scripted (Playwright) and attached (CDP / puppeteer) backends, message  *)
(* extraction and role fallback, the Turndown code rules, and the HTML     *)
(* renderer.                                                               *)
(***************************************************************************)
EXTENDS Integers, Sequences, FiniteSets, TLC

\* ------------------------------------------------------------------------
\* Bounds of the model
\* ------------------------------------------------------------------------
\* Longest page (number of candidate elements in document order).
MaxNodes == 3

\* ------------------------------------------------------------------------
\* Generic helpers
\* ------------------------------------------------------------------------
RECURSIVE SeqsUpTo(_, _)
SeqsUpTo(S, n) ==
  IF n = 0 THEN {<<>>}
  ELSE LET shorter == SeqsUpTo(S, n - 1)
       IN shorter \cup {Append(s, x) : s \in {t \in shorter : Len(t) = n - 1}, x \in S}

RECURSIVE Flatten(_)
Flatten(ss) == IF ss = <<>> THEN <<>> ELSE Head(ss) \o Flatten(Tail(ss))

SelectIdx(n, P(_)) ==
  LET F[i \in 0..n] ==
        IF i = 0 THEN <<>>
        ELSE IF P(i) THEN Append(F[i - 1], i) ELSE F[i - 1]
  IN F[n]

\* ------------------------------------------------------------------------
\* Providers and the selector catalog
\* ------------------------------------------------------------------------
Provider == {"chatgpt", "gemini", "grok", "claude"}

PROVIDER_SELECTOR_CANDIDATES ==
  [ chatgpt |-> << <<"article [data-message-author-role]">>,
                   <<"[data-message-author-role]">>,
                   <<"main article">>,
                   <<"article">> >>,
    gemini  |-> << <<"share-turn-viewer user-query", "share-turn-viewer response-container">>,
                   <<"share-viewer user-query", "share-viewer response-container">>,
                   <<".share-viewer_chat-container user-query",
                     ".share-viewer_chat-container response-container">>,
                   <<"[data-test-id=\"chat-app\"] user-query",
                     "[data-test-id=\"chat-app\"] response-container">>,
                   <<"main [data-message-author-role]", "main [data-author-role]",
                     "main [data-utterance]">>,
                   <<"main [data-testid*=\"message\"]", "[data-testid*=\"message\"]">>,
                   <<"article [data-message-author-role]">>,
                   <<"article", "section", "[role=\"article\"]">> >>,
    grok    |-> << <<"main [data-testid*=\"message\"]", "[data-testid*=\"message\"]">>,
                   <<"main [data-message-author-role]", "main [data-author]">>,
                   <<"article [data-message-author-role]">>,
                   <<"article", "section", "[role=\"article\"]", "main article">>,
                   <<".message-bubble", ".response-content-markdown", ".markdown">>,
                   <<"div[class*=\"message\"]", "div[class*=\"chat\"]">> >>,
    claude  |-> << <<"[data-testid=\"user-message\"]", "[data-is-streaming]">>,
                   <<"[data-testid=\"user-message\"]">>,
                   <<"[data-is-streaming]">>,
                   <<".max-w-3xl.mx-auto [data-testid]",
                     ".max-w-3xl.mx-auto [data-is-streaming]">>,
                   <<"div.gap-3 > div > [data-testid=\"user-message\"]",
                     "div.gap-3 > div [data-is-streaming]">> >> ]

\* ------------------------------------------------------------------------
\* DOM elements.  An element is described by the features the selectors and
\* the role heuristics read.  "none" is an absent attribute (getAttribute
\* returns null), "" a present but empty one.
\*   tag        element name
\*   authorRole data-message-author-role
\*   dataAuthor data-author        dataRole data-role
\*   testid     data-testid        cls  class attribute
\*   streaming  has data-is-streaming
\*   anc        ancestors (selector-relevant descriptions of them)
\*   htmlEmpty  cleaned innerHTML is empty after trim
\*   textLen    length of trimmed textContent
\*   textStart  how the lower-cased text starts
\* ------------------------------------------------------------------------
Shape ==
  [ gptUser   |-> [tag |-> "div", authorRole |-> "user", dataAuthor |-> "none",
                   dataRole |-> "none", testid |-> "none", cls |-> "",
                   streaming |-> FALSE, anc |-> {"main", "article"},
                   htmlEmpty |-> FALSE, textLen |-> 40, textStart |-> "other"],
    gptAsst   |-> [tag |-> "div", authorRole |-> "assistant", dataAuthor |-> "none",
                   dataRole |-> "none", testid |-> "none", cls |-> "",
                   streaming |-> FALSE, anc |-> {"main", "article"},
                   htmlEmpty |-> FALSE, textLen |-> 40, textStart |-> "other"],
    gptNoRole |-> [tag |-> "div", authorRole |-> "", dataAuthor |-> "none",
                   dataRole |-> "none", testid |-> "none", cls |-> "",
                   streaming |-> FALSE, anc |-> {"main", "article"},
                   htmlEmpty |-> FALSE, textLen |-> 40, textStart |-> "other"],
    gptSaid   |-> [tag |-> "div", authorRole |-> "", dataAuthor |-> "none",
                   dataRole |-> "none", testid |-> "none", cls |-> "",
                   streaming |-> FALSE, anc |-> {"main", "article"},
                   htmlEmpty |-> FALSE, textLen |-> 40, textStart |-> "chatgpt said"],
    artEmpty  |-> [tag |-> "article", authorRole |-> "none", dataAuthor |-> "none",
                   dataRole |-> "none", testid |-> "none", cls |-> "",
                   streaming |-> FALSE, anc |-> {"main"},
                   htmlEmpty |-> TRUE, textLen |-> 0, textStart |-> "other"],
    gemUser   |-> [tag |-> "user-query", authorRole |-> "none", dataAuthor |-> "none",
                   dataRole |-> "none", testid |-> "none", cls |-> "",
                   streaming |-> FALSE, anc |-> {"share-turn-viewer"},
                   htmlEmpty |-> FALSE, textLen |-> 40, textStart |-> "other"],
    gemResp   |-> [tag |-> "response-container", authorRole |-> "none",
                   dataAuthor |-> "none", dataRole |-> "none", testid |-> "none",
                   cls |-> "", streaming |-> FALSE, anc |-> {"share-turn-viewer"},
                   htmlEmpty |-> FALSE, textLen |-> 40, textStart |-> "other"],
    secPlain  |-> [tag |-> "section", authorRole |-> "none", dataAuthor |-> "none",
                   dataRole |-> "none", testid |-> "none", cls |-> "",
                   streaming |-> FALSE, anc |-> {"main"},
                   htmlEmpty |-> FALSE, textLen |-> 40, textStart |-> "other"],
    grokUser  |-> [tag |-> "div", authorRole |-> "none", dataAuthor |-> "none",
                   dataRole |-> "none", testid |-> "message-row",
                   cls |-> "message-bubble user", streaming |-> FALSE,
                   anc |-> {"main"},
                   htmlEmpty |-> FALSE, textLen |-> 40, textStart |-> "other"],
    grokPlain |-> [tag |-> "div", authorRole |-> "none", dataAuthor |-> "none",
                   dataRole |-> "none", testid |-> "message-row",
                   cls |-> "message-bubble", streaming |-> FALSE, anc |-> {"main"},
                   htmlEmpty |-> FALSE, textLen |-> 40, textStart |-> "other"],
    grokUnk   |-> [tag |-> "div", authorRole |-> "unknown", dataAuthor |-> "none",
                   dataRole |-> "none", testid |-> "none", cls |-> "",
                   streaming |-> FALSE, anc |-> {"main"},
                   htmlEmpty |-> FALSE, textLen |-> 40, textStart |-> "other"],
    clUser    |-> [tag |-> "div", authorRole |-> "none", dataAuthor |-> "none",
                   dataRole |-> "none", testid |-> "user-message", cls |-> "",
                   streaming |-> FALSE, anc |-> {".max-w-3xl.mx-auto"},
                   htmlEmpty |-> FALSE, textLen |-> 40, textStart |-> "other"],
    clAsst    |-> [tag |-> "div", authorRole |-> "none", dataAuthor |-> "none",
                   dataRole |-> "none", testid |-> "none", cls |-> "",
                   streaming |-> TRUE, anc |-> {".max-w-3xl.mx-auto"},
                   htmlEmpty |-> FALSE, textLen |-> 40, textStart |-> "other"],
    clOther   |-> [tag |-> "div", authorRole |-> "none", dataAuthor |-> "none",
                   dataRole |-> "none", testid |-> "chat-turn", cls |-> "message",
                   streaming |-> FALSE, anc |-> {".max-w-3xl.mx-auto"},
                   htmlEmpty |-> FALSE, textLen |-> 40, textStart |-> "other"] ]

\* The element kinds a page of each provider is drawn from.
PageShapes ==
  [ chatgpt |-> {"gptAsst", "gptNoRole", "gptSaid", "artEmpty"},
    gemini  |-> {"gemUser", "gemResp", "secPlain"},
    grok    |-> {"grokUser", "grokPlain", "grokUnk"},
    claude  |-> {"clUser", "clAsst", "clOther"} ]

\* Substrings (among those the code tests for) of the attribute values used.
Substrings(v) ==
  CASE v = "message-row"         -> {"message"}
    [] v = "user-message"        -> {"message", "user"}
    [] v = "chat-turn"           -> {"chat"}
    [] v = "message"             -> {"message"}
    [] v = "message-bubble"      -> {"message"}
    [] v = "message-bubble user" -> {"message", "user"}
    [] v = "assistant-message"   -> {"assistant", "message"}
    [] v = "bot user"            -> {"bot", "user"}
    [] OTHER                     -> {}

\* Class tokens of a class attribute value.
ClassTokens(v) ==
  CASE v = "message"             -> {"message"}
    [] v = "message-bubble"      -> {"message-bubble"}
    [] v = "message-bubble user" -> {"message-bubble", "user"}
    [] OTHER                     -> {}

\* Element n matches the CSS selector sel (Element.matches).
Matches(sel, n) ==
  CASE sel = "article [data-message-author-role]" ->
         "article" \in n.anc /\ n.authorRole # "none"
    [] sel = "[data-message-author-role]" -> n.authorRole # "none"
    [] sel = "main article" -> n.tag = "article" /\ "main" \in n.anc
    [] sel = "article" -> n.tag = "article"
    [] sel = "section" -> n.tag = "section"
    [] sel = "[role=\"article\"]" -> FALSE
    [] sel = "user-query" -> n.tag = "user-query"
    [] sel = "response-container" -> n.tag = "response-container"
    [] sel = "share-turn-viewer user-query" ->
         n.tag = "user-query" /\ "share-turn-viewer" \in n.anc
    [] sel = "share-turn-viewer response-container" ->
         n.tag = "response-container" /\ "share-turn-viewer" \in n.anc
    [] sel = "share-viewer user-query" ->
         n.tag = "user-query" /\ "share-viewer" \in n.anc
    [] sel = "share-viewer response-container" ->
         n.tag = "response-container" /\ "share-viewer" \in n.anc
    [] sel = ".share-viewer_chat-container user-query" ->
         n.tag = "user-query" /\ ".share-viewer_chat-container" \in n.anc
    [] sel = ".share-viewer_chat-container response-container" ->
         n.tag = "response-container" /\ ".share-viewer_chat-container" \in n.anc
    [] sel = "[data-test-id=\"chat-app\"] user-query" ->
         n.tag = "user-query" /\ "[data-test-id=\"chat-app\"]" \in n.anc
    [] sel = "[data-test-id=\"chat-app\"] response-container" ->
         n.tag = "response-container" /\ "[data-test-id=\"chat-app\"]" \in n.anc
    [] sel = "main [data-message-author-role]" ->
         "main" \in n.anc /\ n.authorRole # "none"
    [] sel = "main [data-author-role]" -> FALSE
    [] sel = "main [data-utterance]" -> FALSE
    [] sel = "main [data-author]" -> "main" \in n.anc /\ n.dataAuthor # "none"
    [] sel = "main [data-testid*=\"message\"]" ->
         "main" \in n.anc /\ "message" \in Substrings(n.testid)
    [] sel = "[data-testid*=\"message\"]" -> "message" \in Substrings(n.testid)
    [] sel = ".message-bubble" -> "message-bubble" \in ClassTokens(n.cls)
    [] sel = ".response-content-markdown" ->
         "response-content-markdown" \in ClassTokens(n.cls)
    [] sel = ".markdown" -> "markdown" \in ClassTokens(n.cls)
    [] sel = "div[class*=\"message\"]" ->
         n.tag = "div" /\ "message" \in Substrings(n.cls)
    [] sel = "div[class*=\"chat\"]" -> n.tag = "div" /\ "chat" \in Substrings(n.cls)
    [] sel = "[class*=\"message\"]" -> "message" \in Substrings(n.cls)
    [] sel = "[data-testid=\"user-message\"]" -> n.testid = "user-message"
    [] sel = "[data-is-streaming]" -> n.streaming
    [] sel = ".max-w-3xl.mx-auto [data-testid]" ->
         ".max-w-3xl.mx-auto" \in n.anc /\ n.testid # "none"
    [] sel = ".max-w-3xl.mx-auto [data-is-streaming]" ->
         ".max-w-3xl.mx-auto" \in n.anc /\ n.streaming
    [] sel = "div.gap-3 > div > [data-testid=\"user-message\"]" ->
         "div.gap-3 > div >" \in n.anc /\ n.testid = "user-message"
    [] sel = "div.gap-3 > div [data-is-streaming]" ->
         "div.gap-3 > div" \in n.anc /\ n.streaming
    [] OTHER -> FALSE

\* All pages of a provider: sequences of elements in document order.
Pages(prov) == SeqsUpTo(PageShapes[prov], MaxNodes)

\* ------------------------------------------------------------------------
\* DOM queries.  A selector list (a string "a, b") is held as the sequence
\* of its comma-separated parts, so join(',') concatenates and split(',')
\* enumerates the parts.
\* ------------------------------------------------------------------------
MatchesAny(sels, n) == \E k \in 1..Len(sels) : Matches(sels[k], n)

\* document.querySelectorAll(sels): indices of the matching elements, in
\* document order.
QuerySelectorAll(d, sels) ==
  SelectIdx(Len(d), LAMBDA i : MatchesAny(sels, Shape[d[i]]))

\* Elements of s not yet in acc, appended to acc in order.
PushUnseen(acc, s) ==
  LET F[k \in 0..Len(s)] ==
        IF k = 0 THEN acc
        ELSE IF \E j \in 1..Len(F[k - 1]) : F[k - 1][j] = s[k]
             THEN F[k - 1] ELSE Append(F[k - 1], s[k])
  IN F[Len(s)]

\* collectDeep(document, selectors, acc, seen): one querySelectorAll per
\* selector, in selector order.  The recursion into shadow roots visits the
\* shadowRoot of root.childNodes only; the child nodes of a document (doctype,
\* <html>) host no shadow root, so no further element is added.
collectDeep(d, selectors) ==
  LET F[k \in 0..Len(selectors)] ==
        IF k = 0 THEN <<>>
        ELSE PushUnseen(F[k - 1], QuerySelectorAll(d, <<selectors[k]>>))
  IN F[Len(selectors)]

\* ------------------------------------------------------------------------
\* Role inference (scripted path)
\* ------------------------------------------------------------------------
MessageRole == {"assistant", "user", "system", "tool", "unknown"}

\* a ?? b ?? c ?? ''
attrRoleOf(n) ==
  IF n.authorRole # "none" THEN n.authorRole
  ELSE IF n.dataAuthor # "none" THEN n.dataAuthor
  ELSE IF n.dataRole # "none" THEN n.dataRole
  ELSE ""

AssistantWords == {"assistant", "bot", "system", "model", "gemini", "grok"}
UserWords == {"user", "human", "you"}

\* Keywords found in `${attrRole} ${testId} ${className}` (lower-cased).
SourceWords(n) ==
  Substrings(attrRoleOf(n)) \cup Substrings(n.testid) \cup Substrings(n.cls)

inferRole(n) ==
  IF n.streaming \/ "[data-is-streaming]" \in n.anc THEN "assistant"
  ELSE IF SourceWords(n) \cap AssistantWords # {} THEN "assistant"
  ELSE IF SourceWords(n) \cap UserWords # {} THEN "user"
  ELSE IF n.textStart = "chatgpt said" THEN "assistant"
  ELSE IF n.textStart = "you said" THEN "user"
  ELSE "unknown"

\* String.toLowerCase on the value of a role attribute
lowerRole(v) == IF v = "User" THEN "user" ELSE v

\* const detected = (attrRole || inferRole()).toLowerCase(), then the mapping
\* to a MessageRole
RoleOf(n) ==
  LET detected == lowerRole(IF attrRoleOf(n) # "" THEN attrRoleOf(n) ELSE inferRole(n))
  IN IF detected \in {"assistant", "user", "system", "tool"} THEN detected
     ELSE "unknown"

\* Scripted extraction: page.evaluate over the collected nodes.  html is the
\* cleaned innerHTML of element i, held as the index of its element.
ExtractPlaywright(d, groups) ==
  LET nodes == collectDeep(d, Flatten(groups))
      kept == SelectIdx(Len(nodes), LAMBDA k :
                ~(Shape[d[nodes[k]]].htmlEmpty /\ Shape[d[nodes[k]]].textLen = 0))
  IN [k \in 1..Len(kept) |->
        [role |-> RoleOf(Shape[d[nodes[kept[k]]]]), html |-> nodes[kept[k]]]]

\* ------------------------------------------------------------------------
\* Attached (CDP) extraction: puppeteerPage.evaluate
\* ------------------------------------------------------------------------
CdpRole(prov, n) ==
  CASE prov = "chatgpt" ->
         IF n.authorRole \in {"none", "", "unknown"}
         THEN IF n.textStart = "chatgpt said" THEN "assistant"
              ELSE IF n.textStart = "you said" THEN "user"
              ELSE "unknown"
         ELSE n.authorRole
    [] prov = "claude" ->
         IF n.testid = "user-message" THEN "user" ELSE "assistant"
    [] prov = "gemini" ->
         IF n.tag = "user-query" THEN "user" ELSE "assistant"
    [] prov = "grok" ->
         IF n.authorRole \notin {"none", ""} THEN n.authorRole
         ELSE IF "user" \in Substrings(n.cls) THEN "user" ELSE "assistant"

CdpQuery(prov) ==
  CASE prov = "chatgpt" -> <<"[data-message-author-role]">>
    [] prov = "claude"  -> <<"[data-testid=\"user-message\"]", "[data-is-streaming]">>
    [] prov = "gemini"  -> <<"user-query", "response-container">>
    [] prov = "grok"    -> <<"[data-testid*=\"message\"]", "[data-message-author-role]">>

GenericQuery == <<"[class*=\"message\"]", "article", "[role=\"article\"]">>

ExtractCdp(d, prov) ==
  LET msgs == QuerySelectorAll(d, CdpQuery(prov))
      allMsgs == QuerySelectorAll(d, GenericQuery)
      long == SelectIdx(Len(allMsgs), LAMBDA k : Shape[d[allMsgs[k]]].textLen > 10)
  IN IF Len(msgs) > 0
     THEN [k \in 1..Len(msgs) |->
             [role |-> CdpRole(prov, Shape[d[msgs[k]]]), html |-> msgs[k]]]
     ELSE [k \in 1..Len(long) |-> [role |-> "unknown", html |-> allMsgs[long[k]]]]

\* ------------------------------------------------------------------------
\* Alternating fallback for unknown roles
\* ------------------------------------------------------------------------
\* Number of unknown roles among the first k messages.
UnknownBefore(msgs, k) ==
  Cardinality({j \in 1..k : msgs[j].role = "unknown"})

\* A fallback that alternates on the message's position instead of on the
\* count of unknown messages.
FallbackByPosition(msgs) ==
  [k \in 1..Len(msgs) |->
     IF msgs[k].role # "unknown" THEN msgs[k]
     ELSE [msgs[k] EXCEPT !.role = IF (k - 1) % 2 = 0 THEN "user" ELSE "assistant"]]

\* scripted path: messages.map with unknownIdx
AlternatingFallback(msgs) ==
  [k \in 1..Len(msgs) |->
     IF msgs[k].role # "unknown" THEN msgs[k]
     ELSE [msgs[k] EXCEPT !.role =
             IF UnknownBefore(msgs, k - 1) % 2 = 0 THEN "user" ELSE "assistant"]]

\* attached path: in-place loop with unknownIdx
AlternatingFallbackCdp(msgs) ==
  [k \in 1..Len(msgs) |->
     IF msgs[k].role # "unknown" THEN msgs[k]
     ELSE [msgs[k] EXCEPT !.role =
             IF UnknownBefore(msgs, k - 1) % 2 = 0 THEN "user" ELSE "assistant"]]

FallbackProviders == {"grok", "gemini", "chatgpt"}

\* ------------------------------------------------------------------------
\* Selector discovery (static snapshot): the first candidate group with a
\* matching attached element; the DOM-count scan picks the same group.
\* ------------------------------------------------------------------------
NoSelector == <<>>

\* A discovery that returns the last candidate group with a match.
findSelectorLastHit(d, prov) ==
  LET candidates == PROVIDER_SELECTOR_CANDIDATES[prov]
      hits == {g \in 1..Len(candidates) : Len(QuerySelectorAll(d, candidates[g])) > 0}
  IN IF hits = {} THEN NoSelector
     ELSE candidates[CHOOSE g \in hits : \A h \in hits : g >= h]

findSelector(d, prov) ==
  LET candidates == PROVIDER_SELECTOR_CANDIDATES[prov]
      hits == {g \in 1..Len(candidates) : Len(QuerySelectorAll(d, candidates[g])) > 0}
  IN IF hits = {} THEN NoSelector
     ELSE candidates[CHOOSE g \in hits : \A h \in hits : g <= h]

\* Values of opts.waitForSelector ("none": not given).
OverrideSelectors == {<<"article", "section">>}

\* ------------------------------------------------------------------------
\* State of one scrape(url, timeoutMs, provider, opts) call
\* ------------------------------------------------------------------------
VARIABLES
  provider,          \* provider argument
  platform,          \* process.platform: "darwin" or "other"
  headless,          \* opts.headless
  useChromeProfile,  \* opts.useChromeProfile
  userDataDir,       \* a Chrome user data dir exists (getChromeUserDataDir)
  cdpEndpoint,       \* opts.cdpEndpoint is given
  waitForSelector,   \* opts.waitForSelector, NoSelector when absent
  pc,                \* position in scrape
  useCdp, attempt, currentHeadless, challengeClear,
  chk,               \* loop index i of the running challenge loop
  browser, context,  \* the Playwright handles held ("null" or a session)
  live,              \* automation sessions that are open
  dom,               \* the page's elements in document order
  selector,          \* the selector scrape settled on
  raw,               \* messages as extracted, before the role fallback
  messages,          \* messages after the role fallback
  outcome,           \* "none", "returned" or "thrown"
  err,               \* which failure was thrown
  hint,              \* the thrown error is an AppError with a hint
  titleText,         \* the title the challenge check read last
  bodyText,          \* the body text the challenge check read last
  pendingWait        \* the ms waited since the last challenge check, 0 if none

\* State of one renderHtmlDocument(markdown, title, source, retrieved) call
VARIABLES
  rpc,               \* "idle" (not running), "call" or "rendered"
  markdown, title, source, retrieved,   \* the arguments
  body,              \* the rendered conversation body
  html               \* the returned document

renderVars == <<rpc, markdown, title, source, retrieved, body, html>>

\* State of the conversion of the extracted messages to Markdown
VARIABLES
  tpc,               \* "idle" (not running), "start", "loop" or "done"
  backend,           \* "scripted" (Playwright) or "attached" (CDP)
  conv,              \* the code element of each message
  ti,                \* the message being converted
  mds,               \* per message: the rule that fired and td.turndown's result
  lines,             \* the lines pushed so far
  tmd,               \* the Markdown returned
  docTitle,          \* the page title
  shareUrl           \* the url argument

markdownVars == <<tpc, backend, conv, ti, mds, lines, tmd, docTitle, shareUrl>>

\* State of one detectProvider(url) call
VARIABLES
  dpc,               \* "idle" (not running), "call" or "returned"
  url,               \* the argument
  detected           \* what the call produced

detectVars == <<dpc, url, detected>>

\* successive calls of renderHtmlDocument on documents of headings
VARIABLES
  hpc,               \* "off" (not running), "ready", "render" or "returned"
  hdoc,              \* the heading texts of the Markdown of the current call
  counts,            \* the call's Map of slug bases to use counts
  headings,          \* the call's collected headings: text and id
  hout,              \* what the call returned: the headings and the contents list
  first,             \* the argument and the result of the first call
  ncalls             \* calls made so far

headingVars == <<hpc, hdoc, counts, headings, hout, first, ncalls>>

\* collectDeep on a document tree with shadow roots
VARIABLES
  cpc,               \* "off" (not running), "call" or "done"
  tree,              \* the document: parent, edge and match of each element
  collected          \* the elements collectDeep put into acc

treeVars == <<cpc, tree, collected>>

\* the waits of a scripted scrape
VARIABLES
  wpc,               \* "off" (not running), "start", or the stage that waits
  timeoutMs,         \* the timeoutMs argument
  bound,             \* the longest the stage can wait, in ms
  bounded            \* the stage's wait has a bound at all

waitVars == <<wpc, timeoutMs, bound, bounded>>

\* main writing its outputs, over successive runs in one directory
VARIABLES
  fpc,               \* "off" (not running), "ready", a step of a run, or how it ended
  run,               \* the number of the current run
  produceMd,         \* the run writes Markdown
  produceHtml,       \* the run writes HTML
  kind,              \* the output being written: "md" or "html"
  fs,                \* the directory: the content at each output path
  target,            \* the path writeAtomic was called with
  tmp,               \* the temporary file of the writeAtomic call
  werr,              \* writeAtomic has an error to rethrow
  unlinkFailed,      \* fs.unlinkSync(tmp) threw
  written            \* writtenFiles: the path written for each kind

fileVars == <<fpc, run, produceMd, produceHtml, kind, fs, target, tmp, werr,
              unlinkFailed, written>>

\* main publishing the written files to GitHub Pages
VARIABLES
  ppc,               \* "off" (not running), or the position of main in its publish block
  yes,               \* parseArgs saw --yes or --no-confirm
  isTTY,             \* process.stdin.isTTY
  dryRun,            \* --dry-run
  shouldPublish,     \* a repository to publish to is known
  answer,            \* the line typed at the prompt of confirmPublish
  confirmed,         \* confirmPublish returned
  called,            \* publishToGhPages was called
  copied,            \* the written files were copied into the working copy
  committed,         \* the copy was committed
  pushed,            \* the commit was pushed
  perr               \* the error main failed with

publishVars == <<ppc, yes, isTTY, dryRun, shouldPublish, answer, confirmed, called,
                 copied, committed, pushed, perr>>

\* one call of attemptWithBackoff
VARIABLES
  bpc,               \* "off" (not running), "call", "sleep", "throw", "returned" or "thrown"
  deadline,          \* Date.now() + timeoutMs at entry, the clock starting at 0
  bnow,              \* Date.now()
  bi,                \* i, the index of the attempt
  tries,             \* the failed attempts counted so far
  lastErr,           \* the error of the last failed attempt, 0 if none
  ncalled,           \* the calls of fn made so far
  sleeps,            \* the sleeps made so far: when each started, and for how long
  made               \* the number of attempts stated by the thrown error, 0 if none

backoffVars == <<bpc, deadline, bnow, bi, tries, lastErr, ncalled, sleeps, made>>

\* the extraction of the html of one matched element, in either backend
VARIABLES
  kpc,               \* "off" (not running), "matched" or "done"
  kbackend,          \* "playwright" or "cdp"
  liveEl,            \* the matched element in the live page: children and shadow root
  enteredEl,         \* the matched element as it was when extraction began
  handed             \* the html handed to td.turndown for the element

cleanVars == <<kpc, kbackend, liveEl, enteredEl, handed>>

\* the role of one collected element, in the scripted extraction
VARIABLES
  ipc,               \* "off" (not running), "collected" or "done"
  inode,             \* the attributes and the text start of the element
  irole              \* the role given to its message

roleVars == <<ipc, inode, irole>>

\* two runs of csctf writing the same target name into one directory
VARIABLES
  qpc,               \* the position of each run: "off", "exists", "write", "rename",
                     \* "finally", "done" or "failed"
  qfs,               \* the directory: who wrote the file at each output path
  qtmp,              \* the temporary files: who wrote the file of each name
  qidx,              \* the candidate each run of uniquePath looks at
  qtarget,           \* the path each run writes to, 0 before it is chosen
  qstamp             \* Date.now() in the name of the temporary file of each run

raceVars == <<qpc, qfs, qtmp, qidx, qtarget, qstamp>>

\* the messages of a page whose matched elements may lie inside one another
VARIABLES
  upc,               \* "off" (not running), "page" or "done"
  udom,              \* the page: the parent of each element, the selectors it matches
  unodes,            \* nodes: the elements collected, in the order collected
  umd                \* the texts emitted into the Markdown, in order

turnVars == <<upc, udom, unodes, umd>>

\* parseArgs over the format flags, and main resolving the formats
VARIABLES
  apc,               \* "off" (not running), "parse", "check", "main", "thrown",
                     \* "failed" or "resolved"
  argv,              \* args: the command line
  ai,                \* i, the index of the argument looked at
  generateHtml,      \* let generateHtml = true
  htmlOnly,          \* let htmlOnly = false
  mdOnly,            \* let mdOnly = false
  fmts               \* the formats main will produce

argVars == <<apc, argv, ai, generateHtml, htmlOnly, mdOnly, fmts>>

\* both backends assembling the Markdown of the same page
VARIABLES
  epc,               \* {"off"} (not running), or the backends that have returned
  einput,            \* the page: provider, title, messages (role, html)
  eout               \* what each backend returned: heading line, role lines,
                     \* message bodies, title

equivVars == <<epc, einput, eout>>

\* the variables of the parts added last
lateVars == <<publishVars, backoffVars, cleanVars, roleVars, raceVars, turnVars, argVars, equivVars>>

\* the variables of the parts that follow the four above
moreVars == <<headingVars, treeVars, waitVars, fileVars, lateVars>>

\* the variables of every part before the parts added last, scrape apart
early == <<renderVars, markdownVars, detectVars, headingVars, treeVars, waitVars, fileVars>>

\* the variables the publish block does not touch
notPublish == <<early, backoffVars, cleanVars, roleVars, raceVars, turnVars, argVars, equivVars>>

\* the variables attemptWithBackoff does not touch
notBackoff == <<early, publishVars, cleanVars, roleVars, raceVars, turnVars, argVars, equivVars>>

\* the variables the extraction of the html of a message does not touch
notClean == <<early, publishVars, backoffVars, roleVars, raceVars, turnVars, argVars, equivVars>>

\* the variables role inference does not touch
notRole == <<early, publishVars, backoffVars, cleanVars, raceVars, turnVars, argVars, equivVars>>

\* the variables two runs writing at once does not touch
notRace == <<early, publishVars, backoffVars, cleanVars, roleVars, turnVars, argVars, equivVars>>

\* the variables the messages of a page does not touch
notTurn == <<early, publishVars, backoffVars, cleanVars, roleVars, raceVars, argVars, equivVars>>

\* the variables parseArgs does not touch
notArgs == <<early, publishVars, backoffVars, cleanVars, roleVars, raceVars, turnVars, equivVars>>

\* the variables the two Markdown assemblies does not touch
notEquiv == <<early, publishVars, backoffVars, cleanVars, roleVars, raceVars, turnVars, argVars>>

\* the variables scrape does not touch
rest == <<renderVars, markdownVars, detectVars, moreVars>>

\* the variables renderHtmlDocument does not touch
notRender == <<markdownVars, detectVars, moreVars>>

\* the variables the conversion to Markdown does not touch
notMarkdown == <<renderVars, detectVars, moreVars>>

\* the variables detectProvider does not touch
notDetect == <<renderVars, markdownVars, moreVars>>

\* the variables a run of heading documents does not touch
notHeadings ==
  <<renderVars, markdownVars, detectVars, treeVars, waitVars, fileVars, lateVars>>

\* the variables collectDeep on a tree does not touch
notTree ==
  <<renderVars, markdownVars, detectVars, headingVars, waitVars, fileVars, lateVars>>

\* the variables the waits do not touch
notWaits ==
  <<renderVars, markdownVars, detectVars, headingVars, treeVars, fileVars, lateVars>>

\* the variables the writing of the outputs does not touch
notFiles ==
  <<renderVars, markdownVars, detectVars, headingVars, treeVars, waitVars, lateVars>>

scrapeVars ==
  <<provider, platform, headless, useChromeProfile, userDataDir, cdpEndpoint,
    waitForSelector, pc, useCdp, attempt, currentHeadless, challengeClear, chk,
    browser, context, live, dom, selector, raw, messages, outcome, err, hint,
    titleText, bodyText, pendingWait>>

vars == <<scrapeVars, rest>>

config == <<provider, platform, headless, useChromeProfile, userDataDir,
            cdpEndpoint, waitForSelector>>
pageVars == <<dom, selector, raw, messages>>
handles == <<browser, context, live>>
result == <<outcome, err, hint>>
locals == <<titleText, bodyText, pendingWait>>

\* ---- challenge heuristics ------------------------------------------------
\* A title is a sequence of phrases; a body text is its length and the set of
\* phrases that occur in it.
\* if (bodyText.length > 2000) return false
MaxChallengeBody == 2000

\* the i flag of the regular expressions
foldCase(w) ==
  CASE w = "Verify" -> "verify"
    [] w = "Cloudflare" -> "cloudflare"
    [] w = "Verify you are human" -> "verify you are human"
    [] OTHER -> w

\* /^(just a moment|checking|verify|attention required|one moment|please wait)/i
TitleStarts ==
  {"just a moment", "checking", "verify", "attention required", "one moment",
   "please wait"}

\* /verify you are human|enable javascript.*cookies|checking your browser|ray id:/i
BodySignatures ==
  {"verify you are human", "enable javascript and cookies", "checking your browser",
   "ray id:"}

\* /verify you are human|just a moment|checking your browser|ray id:/i
CdpBodySignatures ==
  {"verify you are human", "just a moment", "checking your browser", "ray id:"}

\* /just a moment|cloudflare/i
CdpTitleSignatures == {"just a moment", "cloudflare"}

isChallengeTitle(t) ==
  \/ t # <<>> /\ foldCase(t[1]) \in TitleStarts
  \/ \E k \in 1..Len(t) : foldCase(t[k]) = "cloudflare"

isChallengeBody(b) ==
  IF b.length > MaxChallengeBody THEN FALSE
  ELSE \E w \in b.phrases : foldCase(w) \in BodySignatures

\* checkForChallengePuppeteer: content test || title test
checkForChallengePuppeteer(t, b) ==
  \/ \E w \in b.phrases : foldCase(w) \in CdpBodySignatures
  \/ \E k \in 1..Len(t) : foldCase(t[k]) \in CdpTitleSignatures

\* what a failed read gives: .catch(() => '')
NoTitle == <<>>
NoBody == [length |-> 0, phrases |-> {}]

\* the titles and body texts a page can show to a challenge check
Titles ==
  {NoTitle, <<"chat">>, <<"Verify">>, <<"chat", "Verify">>, <<"chat", "Cloudflare">>,
   <<"chat", "just a moment">>}
Bodies ==
  {NoBody} \cup
  [length : {MaxChallengeBody, MaxChallengeBody + 1},
   phrases : {{"chat"}, {"chat", "Verify you are human"}, {"chat", "just a moment"}}]

ScrapeInit ==
  /\ provider \in Provider
  /\ platform \in {"darwin", "other"}
  /\ headless \in BOOLEAN
  /\ useChromeProfile \in BOOLEAN
  /\ userDataDir \in (IF useChromeProfile THEN BOOLEAN ELSE {FALSE})
  /\ cdpEndpoint \in BOOLEAN
  /\ waitForSelector \in {NoSelector} \cup
       (IF provider = "gemini" THEN OverrideSelectors ELSE {})
  /\ pc = "start"
  /\ useCdp = FALSE
  /\ attempt = 0
  /\ currentHeadless = headless
  /\ challengeClear = FALSE
  /\ chk = 0
  /\ browser = "null"
  /\ context = "null"
  /\ live = {}
  /\ dom = <<>>
  /\ selector = NoSelector
  /\ raw = <<>>
  /\ messages = <<>>
  /\ outcome = "none"
  /\ err = "none"
  /\ hint = FALSE
  /\ titleText = NoTitle
  /\ bodyText = NoBody
  /\ pendingWait = 0

\* scrape is not running
ScrapeIdle ==
  /\ provider = "chatgpt" /\ platform = "other" /\ headless = TRUE
  /\ useChromeProfile = FALSE /\ userDataDir = FALSE /\ cdpEndpoint = FALSE
  /\ waitForSelector = NoSelector
  /\ pc = "idle" /\ useCdp = FALSE /\ attempt = 0 /\ currentHeadless = TRUE
  /\ challengeClear = FALSE /\ chk = 0
  /\ browser = "null" /\ context = "null" /\ live = {}
  /\ dom = <<>> /\ selector = NoSelector /\ raw = <<>> /\ messages = <<>>
  /\ outcome = "none" /\ err = "none" /\ hint = FALSE
  /\ titleText = NoTitle /\ bodyText = NoBody /\ pendingWait = 0

\* throw inside scrape's outer try: control goes to catch (err), then finally.
Throw(e, h) ==
  /\ pc' = "finally"
  /\ outcome' = "thrown"
  /\ err' = e
  /\ hint' = h

\* A start that always chooses the attached backend.
StartAttached ==
  /\ pc = "start"
  /\ useCdp' = TRUE
  /\ attempt' = 0
  /\ pc' = "loop"
  /\ UNCHANGED <<rest, locals, config, currentHeadless, challengeClear, chk, handles, pageVars, result>>

\* let useCdp = opts.cdpEndpoint !== undefined || provider === 'claude'
Start ==
  /\ pc = "start"
  /\ useCdp' = (cdpEndpoint \/ provider = "claude")
  /\ attempt' = 0
  /\ pc' = "loop"
  /\ UNCHANGED <<rest, locals, config, currentHeadless, challengeClear, chk, handles, pageVars, result>>

\* for (let attempt = 0; attempt < 2; attempt++) { if (useCdp) ... else ... }
LoopTop ==
  /\ pc = "loop"
  /\ IF attempt < 2
     THEN /\ pc' = IF useCdp THEN "cdp_connect" ELSE "pw_launch"
          /\ UNCHANGED result
     ELSE Throw("unexpected", FALSE)
  /\ UNCHANGED <<rest, locals, config, useCdp, attempt, currentHeadless, challengeClear, chk,
                 handles, pageVars>>

\* `continue`: the loop's attempt++ and back to the loop test.
Continue ==
  /\ attempt' = attempt + 1
  /\ pc' = "loop"

\* triggerCdpFallback: closes `browser` (not `context`) and sets useCdp.
triggerCdpFallback(b, c, l) == l \ {b}

\* ---- scripted (Playwright) branch ---------------------------------------
\* launchBrowser(headless, useProfile): a persistent context when a profile
\* is asked for and a user data dir exists, else a browser.
LaunchKinds == IF useChromeProfile /\ userDataDir THEN {"context"} ELSE {"browser"}

\* const result = await launchBrowser(currentHeadless, useProfile); newPage
PwLaunch ==
  /\ pc = "pw_launch"
  /\ \/ \E k \in LaunchKinds :
          /\ IF k = "context"
             THEN /\ context' = "c1"
                  /\ browser' = "null"
                  /\ live' = live \cup {"c1"}
             ELSE /\ browser' = "b1"
                  /\ context' = context
                  /\ live' = live \cup {"b1"}
          /\ pc' = "pw_goto"
          /\ err' = err
     \/ \E e \in {"blocking", "other"} :
          /\ pc' = "pw_catch"
          /\ err' = e
          /\ UNCHANGED handles
  /\ UNCHANGED <<rest, locals, config, useCdp, attempt, currentHeadless, challengeClear, chk,
                 pageVars, outcome, hint>>

\* Stage 1/2: attemptWithBackoff(page.goto), waitForLoadState('networkidle')
PwGoto ==
  /\ pc = "pw_goto"
  /\ \/ /\ pc' = "pw_challenge"
        /\ chk' = 0
        /\ challengeClear' = FALSE
        /\ err' = err
     \/ \E e \in {"blocking", "other"} :
          /\ pc' = "pw_catch"
          /\ err' = e
          /\ UNCHANGED <<chk, challengeClear>>
  /\ UNCHANGED <<rest, locals, config, useCdp, attempt, currentHeadless, handles, pageVars,
                 outcome, hint>>

\* const challengeWaits = [3000, 5000, 8000, 10000, 12000]
challengeWaits == <<3000, 5000, 8000, 10000, 12000>>

\* Number of checks of a challenge loop (challengeWaits.length; i < 5).
ChallengeChecks == 5

\* the wait that follows the i-th check of a loop when the check matched:
\* page.waitForTimeout(challengeWaits[i]) headless, waitForTimeout(5000) headful
challengeWait(here, i) == IF here = "pw_challenge" THEN challengeWaits[i] ELSE 5000

\* A challenge loop that sets challengeClear and goes on waiting.
ChallengeStepNoBreak(here, next) ==
  /\ pc = here
  /\ IF chk < ChallengeChecks
     THEN \E t \in Titles, b \in Bodies :
            /\ titleText' = t
            /\ bodyText' = b
            /\ pendingWait' = challengeWait(here, chk + 1)
            /\ chk' = chk + 1
            /\ pc' = here
            /\ challengeClear' = (challengeClear \/ (~isChallengeTitle(t) /\ ~isChallengeBody(b)))
     ELSE /\ pc' = next
          /\ UNCHANGED <<chk, challengeClear, locals>>
  /\ UNCHANGED <<rest, config, useCdp, attempt, currentHeadless, handles, pageVars, result>>

\* One iteration of a challenge loop: read the body text and the title;
\* if (!isChallengeTitle(title) && !isChallengeBody(bodyText)) the page is
\* clear (break), else waitForTimeout and the next i.
ChallengeStep(here, next) ==
  /\ pc = here
  /\ IF chk < ChallengeChecks
     THEN \E t \in Titles, b \in Bodies :
            /\ titleText' = t
            /\ bodyText' = b
            /\ IF ~isChallengeTitle(t) /\ ~isChallengeBody(b)
               THEN /\ challengeClear' = TRUE
                    /\ pc' = next
                    /\ chk' = chk
                    /\ pendingWait' = 0
               ELSE /\ chk' = chk + 1
                    /\ pc' = here
                    /\ challengeClear' = challengeClear
                    /\ pendingWait' = challengeWait(here, chk + 1)
     ELSE /\ pc' = next
          /\ UNCHANGED <<chk, challengeClear, locals>>
  /\ UNCHANGED <<rest, config, useCdp, attempt, currentHeadless, handles, pageVars, result>>

PwChallenge == ChallengeStep("pw_challenge", "pw_headful")

\* A retry that leaves the headless session open.
keepContextAndBrowser(l, c, b) == l

\* if (context) await context.close(); if (browser) await browser.close()
closeContextAndBrowser(l, c, b) == l \ {c, b}

\* if (!challengeClear && currentHeadless): close context and browser, then
\* launchBrowser(false, useProfile)
PwHeadful ==
  /\ pc = "pw_headful"
  /\ IF ~challengeClear /\ currentHeadless
     THEN /\ currentHeadless' = FALSE
          /\ \/ \E k \in LaunchKinds :
                  /\ IF k = "context"
                     THEN /\ context' = "c2"
                          /\ browser' = "null"
                          /\ live' = closeContextAndBrowser(live, context, browser) \cup {"c2"}
                     ELSE /\ browser' = "b2"
                          /\ context' = context
                          /\ live' = closeContextAndBrowser(live, context, browser) \cup {"b2"}
                  /\ pc' = "pw_goto2"
                  /\ err' = err
             \/ \E e \in {"blocking", "other"} :
                  /\ live' = closeContextAndBrowser(live, context, browser)
                  /\ pc' = "pw_catch"
                  /\ err' = e
                  /\ UNCHANGED <<browser, context>>
     ELSE /\ pc' = "pw_gate"
          /\ UNCHANGED <<currentHeadless, handles, err>>
  /\ titleText' = NoTitle
  /\ bodyText' = NoBody
  /\ pendingWait' = 0
  /\ UNCHANGED <<rest, config, useCdp, attempt, challengeClear, chk, pageVars, outcome, hint>>

\* headful: page.goto (no backoff), waitForLoadState
PwGoto2 ==
  /\ pc = "pw_goto2"
  /\ \/ /\ pc' = "pw_challenge2"
        /\ chk' = 0
        /\ err' = err
     \/ \E e \in {"blocking", "other"} :
          /\ pc' = "pw_catch"
          /\ err' = e
          /\ chk' = chk
  /\ UNCHANGED <<rest, locals, config, useCdp, attempt, currentHeadless, challengeClear, handles,
                 pageVars, outcome, hint>>

PwChallenge2 == ChallengeStep("pw_challenge2", "pw_gate")

\* A gate that falls back to the attached backend on every platform.
PwGateAnyPlatform ==
  /\ pc = "pw_gate"
  /\ IF challengeClear
     THEN /\ pc' = "pw_select"
          /\ UNCHANGED <<useCdp, attempt, handles, result>>
     ELSE IF ~useCdp
     THEN /\ live' = triggerCdpFallback(browser, context, live)
          /\ browser' = "null"
          /\ context' = context
          /\ useCdp' = TRUE
          /\ Continue
          /\ UNCHANGED result
     ELSE /\ Throw("challenge", TRUE)
          /\ UNCHANGED <<useCdp, attempt, handles>>
  /\ titleText' = NoTitle
  /\ bodyText' = NoBody
  /\ pendingWait' = 0
  /\ UNCHANGED <<rest, config, currentHeadless, challengeClear, chk, pageVars>>

\* if (!challengeClear) { darwin && !useCdp: fallback, continue; else throw }
\* The AppError is thrown inside the inner try; its message matches no
\* blocking signature, so the inner catch rethrows it.
PwGate ==
  /\ pc = "pw_gate"
  /\ IF challengeClear
     THEN /\ pc' = "pw_select"
          /\ UNCHANGED <<useCdp, attempt, handles, result>>
     ELSE IF platform = "darwin" /\ ~useCdp
     THEN /\ live' = triggerCdpFallback(browser, context, live)
          /\ browser' = "null"
          /\ context' = context
          /\ useCdp' = TRUE
          /\ Continue
          /\ UNCHANGED result
     ELSE /\ Throw("challenge", TRUE)
          /\ UNCHANGED <<useCdp, attempt, handles>>
  /\ titleText' = NoTitle
  /\ bodyText' = NoBody
  /\ pendingWait' = 0
  /\ UNCHANGED <<rest, config, currentHeadless, challengeClear, chk, pageVars>>

\* A catch that retries in the scripted backend instead of falling back.
PwCatchStayScripted ==
  /\ pc = "pw_catch"
  /\ IF err = "blocking" /\ platform = "darwin" /\ ~useCdp
     THEN /\ live' = triggerCdpFallback(browser, context, live \ {context})
          /\ context' = "null"
          /\ browser' = "null"
          /\ useCdp' = useCdp
          /\ Continue
          /\ err' = "none"
          /\ UNCHANGED <<outcome, hint>>
     ELSE /\ Throw("setup", FALSE)
          /\ UNCHANGED <<useCdp, attempt, handles>>
  /\ UNCHANGED <<rest, locals, config, currentHeadless, challengeClear, chk, pageVars>>

\* catch (playwrightSetupErr): isBlockingError && darwin && !useCdp ->
\* close context, triggerCdpFallback, continue; else rethrow.
PwCatch ==
  /\ pc = "pw_catch"
  /\ IF err = "blocking" /\ platform = "darwin" /\ ~useCdp
     THEN /\ live' = triggerCdpFallback(browser, context, live \ {context})
          /\ context' = "null"
          /\ browser' = "null"
          /\ useCdp' = TRUE
          /\ Continue
          /\ err' = "none"
          /\ UNCHANGED <<outcome, hint>>
     ELSE /\ Throw("setup", FALSE)
          /\ UNCHANGED <<useCdp, attempt, handles>>
  /\ UNCHANGED <<rest, locals, config, currentHeadless, challengeClear, chk, pageVars>>

\* const selector = opts.waitForSelector ?? (await findSelector()), on the
\* page as it is now; then the not-found branches.
PwSelect ==
  /\ pc = "pw_select"
  /\ \E d \in Pages(provider) :
       LET sel == IF waitForSelector # NoSelector THEN waitForSelector
                  ELSE findSelector(d, provider)
       IN /\ dom' = d
          /\ selector' = sel
          /\ IF sel # NoSelector
             THEN /\ pc' = "pw_wait"
                  /\ UNCHANGED <<useCdp, attempt, handles, result>>
             ELSE IF provider = "chatgpt" /\ platform = "darwin" /\ ~useCdp
             THEN /\ live' = triggerCdpFallback(browser, context, live)
                  /\ browser' = "null"
                  /\ context' = context
                  /\ useCdp' = TRUE
                  /\ Continue
                  /\ UNCHANGED result
             ELSE /\ Throw(IF currentHeadless /\ provider = "chatgpt"
                           THEN "headless-blocked" ELSE "no-selector", TRUE)
                  /\ UNCHANGED <<useCdp, attempt, handles>>
  /\ UNCHANGED <<rest, locals, config, currentHeadless, challengeClear, chk, raw, messages>>

\* attemptWithBackoff(page.waitForSelector(selector)): fails when nothing
\* matches; then page.evaluate (extraction) and the alternating fallback.
PwExtract ==
  /\ pc = "pw_wait"
  /\ IF Len(QuerySelectorAll(dom, selector)) = 0
     THEN /\ Throw("wait-failed", FALSE)
          /\ UNCHANGED <<raw, messages>>
     ELSE LET selectorGroups ==
                IF waitForSelector # NoSelector THEN << waitForSelector >>
                ELSE PROVIDER_SELECTOR_CANDIDATES[provider]
              extracted == ExtractPlaywright(dom, selectorGroups)
          IN /\ raw' = extracted
             /\ messages' = IF provider \in FallbackProviders
                            THEN AlternatingFallback(extracted) ELSE extracted
             /\ pc' = "pw_finish"
             /\ UNCHANGED result
  /\ UNCHANGED <<rest, locals, config, useCdp, attempt, currentHeadless, challengeClear, chk,
                 handles, dom, selector>>

\* if (!messages.length) throw AppError(...); else assemble Markdown, return.
PwFinish ==
  /\ pc = "pw_finish"
  /\ IF Len(messages) = 0
     THEN Throw("no-messages", TRUE)
     ELSE /\ pc' = "finally"
          /\ outcome' = "returned"
          /\ UNCHANGED <<err, hint>>
  /\ UNCHANGED <<rest, locals, config, useCdp, attempt, currentHeadless, challengeClear, chk,
                 handles, pageVars>>

\* ---- attached (CDP) branch ----------------------------------------------
\* puppeteer.connect (directly, or after launching Chrome with debugging);
\* "Chrome is still running", "Could not launch Chrome" and "Could not
\* connect to Chrome" are thrown before a connection exists.
CdpConnect ==
  /\ pc = "cdp_connect"
  /\ \/ /\ live' = live \cup {"pp"}
        /\ pc' = "cdp_page"
        /\ UNCHANGED result
     \/ /\ Throw("cdp-connect", TRUE)
        /\ live' = live
  /\ UNCHANGED <<rest, locals, config, useCdp, attempt, currentHeadless, challengeClear, chk,
                 browser, context, pageVars>>

\* find the page (or newPage + goto), waitForNetworkIdle, then
\* if (await checkForChallengePuppeteer()): prompt the user.
CdpChallenge ==
  /\ pc = "cdp_page"
  /\ \/ \E t \in Titles, b \in Bodies :
          /\ titleText' = t
          /\ bodyText' = b
          /\ pendingWait' = pendingWait
          /\ pc' = IF checkForChallengePuppeteer(t, b) THEN "cdp_prompt" ELSE "cdp_select"
          /\ UNCHANGED result
     \/ /\ Throw("cdp-goto", FALSE)
        /\ UNCHANGED locals
  /\ UNCHANGED <<rest, config, useCdp, attempt, currentHeadless, challengeClear, chk,
                 handles, pageVars>>

\* after the user pressed Enter: re-find the page, then
\* if (await checkForChallengePuppeteer()) throw 'Cloudflare challenge still present.'
CdpRecheck ==
  /\ pc = "cdp_prompt"
  /\ \/ \E t \in Titles, b \in Bodies :
          /\ titleText' = t
          /\ bodyText' = b
          /\ pendingWait' = pendingWait
          /\ IF checkForChallengePuppeteer(t, b)
             THEN Throw("cdp-challenge", TRUE)
             ELSE /\ pc' = "cdp_select"
                  /\ UNCHANGED result
     \/ /\ Throw("cdp-lost-page", FALSE)
        /\ UNCHANGED locals
  /\ UNCHANGED <<rest, config, useCdp, attempt, currentHeadless, challengeClear, chk,
                 handles, pageVars>>

\* for (const group of cdpSelectors) waitForSelector(group.join(','))
CdpSelect ==
  /\ pc = "cdp_select"
  /\ \E d \in Pages(provider) :
       /\ dom' = d
       /\ selector' = findSelector(d, provider)
       /\ IF findSelector(d, provider) = NoSelector
          THEN Throw("cdp-no-content", TRUE)
          ELSE /\ pc' = "cdp_extract"
               /\ UNCHANGED result
  /\ titleText' = NoTitle
  /\ bodyText' = NoBody
  /\ pendingWait' = 0
  /\ UNCHANGED <<rest, config, useCdp, attempt, currentHeadless, challengeClear, chk,
                 handles, raw, messages>>

\* puppeteerPage.evaluate (extraction), the alternating fallback, then
\* puppeteerBrowser.disconnect().
CdpExtract ==
  /\ pc = "cdp_extract"
  /\ raw' = ExtractCdp(dom, provider)
  /\ messages' = IF provider \in FallbackProviders
                 THEN AlternatingFallbackCdp(ExtractCdp(dom, provider))
                 ELSE ExtractCdp(dom, provider)
  /\ live' = live \ {"pp"}
  /\ pc' = "cdp_finish"
  /\ UNCHANGED <<rest, locals, config, useCdp, attempt, currentHeadless, challengeClear, chk,
                 browser, context, dom, selector, result>>

\* restore Chrome, assemble the Markdown, return { title, markdown, ... }.
CdpFinish ==
  /\ pc = "cdp_finish"
  /\ pc' = "finally"
  /\ outcome' = "returned"
  /\ UNCHANGED <<rest, locals, config, useCdp, attempt, currentHeadless, challengeClear, chk,
                 handles, pageVars, err, hint>>

\* finally { if (browser) browser.close(); if (context) context.close() }
Finally ==
  /\ pc = "finally"
  /\ live' = live \ {browser, context}
  /\ pc' = "done"
  /\ UNCHANGED <<rest, locals, config, useCdp, attempt, currentHeadless, challengeClear, chk,
                 browser, context, pageVars, result>>

ScrapeNext ==
  \/ Start \/ LoopTop
  \/ PwLaunch \/ PwGoto \/ PwChallenge \/ PwHeadful \/ PwGoto2 \/ PwChallenge2
  \/ PwGate \/ PwCatch \/ PwSelect \/ PwExtract \/ PwFinish
  \/ CdpConnect \/ CdpChallenge \/ CdpRecheck \/ CdpSelect \/ CdpExtract \/ CdpFinish
  \/ Finally

\* ------------------------------------------------------------------------
\* renderHtmlDocument.  Text is a sequence of lexical tokens: the single
\* characters "<", ">" and "/", words ("script", "SCRIPT", "style", "img",
\* "txt"), an attribute with a value ("onerror=x", "src=http"), the Markdown
\* heading marker "##" and the Markdown image "![](http)".  Markup the
\* template writes itself is one token per piece.
\* ------------------------------------------------------------------------
MaxMdLen == 4

ScriptWords == {"script", "SCRIPT"}
StyleWords == {"style", "STYLE"}

\* replace(/<word/gi, '&lt;word'): the replacement text is lower-case
RECURSIVE ReplaceOpen(_, _, _)
ReplaceOpen(ts, words, w) ==
  IF ts = <<>> THEN <<>>
  ELSE IF Len(ts) >= 2 /\ ts[1] = "<" /\ ts[2] \in words
       THEN <<"&lt;", w>> \o ReplaceOpen(SubSeq(ts, 3, Len(ts)), words, w)
       ELSE <<Head(ts)>> \o ReplaceOpen(Tail(ts), words, w)

\* replace(/<\/word>/gi, '&lt;/word&gt;')
RECURSIVE ReplaceClose(_, _, _)
ReplaceClose(ts, words, w) ==
  IF ts = <<>> THEN <<>>
  ELSE IF Len(ts) >= 4 /\ ts[1] = "<" /\ ts[2] = "/" /\ ts[3] \in words /\ ts[4] = ">"
       THEN <<"&lt;", "/", w, "&gt;">> \o ReplaceClose(SubSeq(ts, 5, Len(ts)), words, w)
       ELSE <<Head(ts)>> \o ReplaceClose(Tail(ts), words, w)

\* The same four replacements without the i flag.
escapeExecutableTagsCaseSensitive(h) ==
  ReplaceClose(ReplaceOpen(ReplaceClose(ReplaceOpen(h, {"script"}, "script"),
                                        {"script"}, "script"),
                           {"style"}, "style"),
               {"style"}, "style")

escapeExecutableTags(h) ==
  ReplaceClose(ReplaceOpen(ReplaceClose(ReplaceOpen(h, ScriptWords, "script"),
                                        ScriptWords, "script"),
                           StyleWords, "style"),
               StyleWords, "style")

\* escapeHtml: & < > " ' / become entities
escapeHtmlToken(t) ==
  CASE t = "<" -> "&lt;"
    [] t = ">" -> "&gt;"
    [] t = "/" -> "&#47;"
    [] t = "&lt;" -> "&amp;lt;"
    [] t = "&gt;" -> "&amp;gt;"
    [] OTHER -> t

escapeHtml(value) == [k \in 1..Len(value) |-> escapeHtmlToken(value[k])]

ProviderNames == {"ChatGPT", "Gemini", "Grok", "Claude"}

\* title.replace(/^(ChatGPT|Gemini|Grok|Claude)\s*-?\s*/i, '')
\*      .replace(/\s*\|\s*Claude$/i, '')
stripProviderPrefix(t) ==
  LET a == IF t # <<>> /\ Head(t) \in ProviderNames
           THEN IF Len(t) >= 2 /\ t[2] = "-" THEN SubSeq(t, 3, Len(t)) ELSE Tail(t)
           ELSE t
  IN IF Len(a) >= 2 /\ a[Len(a) - 1] = "|" /\ a[Len(a)] = "Claude"
     THEN SubSeq(a, 1, Len(a) - 2) ELSE a

\* \s, and what String.trim removes: blanks, newlines and the Unicode line
\* and paragraph separators
IsSpace(c) == c \in {" ", "\n", "U+2028", "U+2029"}

RECURSIVE trimEnd(_)
trimEnd(ts) ==
  IF ts # <<>> /\ IsSpace(ts[Len(ts)]) THEN trimEnd(SubSeq(ts, 1, Len(ts) - 1)) ELSE ts

RECURSIVE trimStart(_)
trimStart(ts) == IF ts # <<>> /\ IsSpace(Head(ts)) THEN trimStart(Tail(ts)) ELSE ts

trim(ts) == trimStart(trimEnd(ts))

\* headingSlug keeps letters, digits, blanks and hyphens, lower-cased; the
\* slug's pieces are written "#word" to tell them from the text's words.
SlugToken(t) ==
  CASE t \in ScriptWords -> <<"#script">>
    [] t \in StyleWords -> <<"#style">>
    [] t = "img" -> <<"#img">>
    [] t = "txt" -> <<"#txt">>
    [] t = "onerror=x" -> <<"#onerrorx">>
    [] t = "src=http" -> <<"#srchttp">>
    [] t = "![](http)" -> <<"#http">>
    [] t = "&lt;" -> <<"#lt">>
    [] t = "&gt;" -> <<"#gt">>
    [] t \in {" ", "-", "1"} -> <<t>>
    [] OTHER -> <<>>

\* replace(/\s+/g, '-')
RECURSIVE dashRuns(_)
dashRuns(ts) ==
  IF ts = <<>> THEN <<>>
  ELSE IF IsSpace(Head(ts))
       THEN <<"-">> \o dashRuns(trimStart(ts))
       ELSE <<Head(ts)>> \o dashRuns(Tail(ts))

\* new Map<string, number>()
NoCounts == <<>>

\* the id of a heading, and the counts after the call
headingSlug(text, cnts) ==
  LET base == dashRuns(trim(Flatten([k \in 1..Len(text) |-> SlugToken(text[k])])))
      finalBase == IF base = <<>> THEN <<"#section">> ELSE base
      existing == IF finalBase \in DOMAIN cnts THEN cnts[finalBase] ELSE 0
  IN [id |-> IF existing = 0 THEN finalBase
             ELSE finalBase \o <<"-", ToString(existing)>>,
      counts |-> [b \in DOMAIN cnts \cup {finalBase} |->
                    IF b = finalBase THEN existing + 1 ELSE cnts[b]]]

\* markdown-it with html: true.  An HTML tag in the Markdown is "<", a tag
\* name, attributes, an optional "/" and ">", or "<", "/", a tag name and
\* ">"; it is copied to the output as it is.  TagEnd is the position of the
\* ">" that closes the tag starting at ts[1], 0 when no tag starts there.
TagNames == ScriptWords \cup StyleWords \cup {"img"}
AttrTokens == TagNames \cup {"onerror=x", "src=http", "txt"}

TagEnd(ts) ==
  IF Len(ts) >= 4 /\ ts[1] = "<" /\ ts[2] = "/" /\ ts[3] \in TagNames /\ ts[4] = ">"
  THEN 4
  ELSE IF Len(ts) >= 3 /\ ts[1] = "<" /\ ts[2] \in TagNames
       THEN LET ends == {j \in 3..Len(ts) :
                           /\ ts[j] = ">"
                           /\ \A k \in 3..(j - 1) :
                                \/ ts[k] \in AttrTokens
                                \/ k = j - 1 /\ ts[k] = "/"}
            IN IF ends = {} THEN 0 ELSE CHOOSE j \in ends : \A i \in ends : j <= i
       ELSE 0

\* Inline rendering: tags are copied, a Markdown image becomes an <img> with
\* the image's address, every other "<" and ">" is escaped, text is copied.
RECURSIVE MdInline(_)
MdInline(ts) ==
  IF ts = <<>> THEN <<>>
  ELSE IF TagEnd(ts) > 0
       THEN SubSeq(ts, 1, TagEnd(ts)) \o MdInline(SubSeq(ts, TagEnd(ts) + 1, Len(ts)))
       ELSE (CASE Head(ts) = "<" -> <<"&lt;">>
               [] Head(ts) = ">" -> <<"&gt;">>
               [] Head(ts) = "![](http)" -> <<"<", "img", "src=http", ">">>
               [] OTHER -> <<Head(ts)>>) \o MdInline(Tail(ts))

\* md.render of one line: a line that starts with "##" is a level-2 heading
\* (heading_open sets its id), any other line is a paragraph.
IsHeading(ts) == ts # <<>> /\ Head(ts) = "##"

MdRender(ts) ==
  IF ts = <<>> THEN <<>>
  ELSE IF IsHeading(ts)
       THEN <<"<h2 id=\"">> \o headingSlug(Tail(ts), NoCounts).id \o <<"\">">>
              \o MdInline(Tail(ts)) \o <<"</h2>">>
       ELSE <<"<p>">> \o MdInline(ts) \o <<"</p>">>

\* safeRetrieved.split('T')[0]
RECURSIVE DatePart(_)
DatePart(ts) ==
  IF ts = <<>> \/ Head(ts) = "T" THEN <<>> ELSE <<Head(ts)>> \o DatePart(Tail(ts))

renderHtmlDocument(md, ttl, src, retr) ==
  LET safeMarkdown == escapeExecutableTags(md)
      rendered == MdRender(safeMarkdown)
      bodyHtml == escapeExecutableTags(rendered)
      safeTitle == escapeHtml(stripProviderPrefix(ttl))
      safeSource == escapeHtml(src)
      safeRetrieved == escapeHtml(retr)
      toc == IF IsHeading(safeMarkdown)
             THEN <<"<div class=\"toc\">", "<li><a href=\"#">>
                    \o headingSlug(Tail(safeMarkdown), NoCounts).id \o <<"\">">>
                    \o escapeHtml(Tail(safeMarkdown)) \o <<"</a></li>", "</div>">>
             ELSE <<>>
  IN [ body |-> bodyHtml,
       doc |-> <<"<!doctype html>", "<title>">> \o safeTitle
                 \o <<"</title>", "<", "style", ">", "INLINE_STYLE",
                      "<", "/", "style", ">", "<a href=\"">> \o safeSource
                 \o <<"\">Source</a>">> \o DatePart(safeRetrieved)
                 \o <<"<h1>">> \o safeTitle \o <<"</h1>">> \o toc
                 \o <<"<div class=\"content\">">> \o bodyHtml
                 \o <<"</div>", "<footer>", "</html>">> ]

\* The arguments renderHtmlDocument is applied to.
MdAlphabet ==
  {"<", "/", ">", "script", "SCRIPT", "style", "img", "onerror=x", "##", "![](http)"}
MetaStrings == { <<"txt">>, <<"ChatGPT", "-", "<", "SCRIPT", ">">> }
Timestamps == { <<"2025-01-01", "T", "12:00">>, <<"<", "script", ">", "T">> }

RenderInputs ==
  { <<m, <<"txt">>, <<"txt">>, <<"2025-01-01", "T", "12:00">> >> :
       m \in SeqsUpTo(MdAlphabet, MaxMdLen) }
  \cup (SeqsUpTo(MdAlphabet, 1) \X MetaStrings \X MetaStrings \X Timestamps)

RenderIdle ==
  /\ rpc = "idle"
  /\ markdown = <<>> /\ title = <<>> /\ source = <<>> /\ retrieved = <<>>
  /\ body = <<>> /\ html = <<>>

RenderInit ==
  /\ rpc = "call"
  /\ \E a \in RenderInputs :
       /\ markdown = a[1] /\ title = a[2] /\ source = a[3] /\ retrieved = a[4]
  /\ body = <<>> /\ html = <<>>

Render ==
  /\ rpc = "call"
  /\ LET r == renderHtmlDocument(markdown, title, source, retrieved)
     IN /\ body' = r.body
        /\ html' = r.doc
  /\ rpc' = "rendered"
  /\ UNCHANGED <<markdown, title, source, retrieved, scrapeVars, notRender>>

RenderNext == Render

\* ------------------------------------------------------------------------
\* Conversion of the messages to Markdown (buildTurndown and the assembly at
\* the end of scrape).  Markdown and code text are sequences of characters:
\* the backtick, the letter "a", the blank and the newline; a word the code
\* writes itself (a heading, an info string) is one character.
\* ------------------------------------------------------------------------
MaxCodeLen == 3

\* the backtick character
Tick == "tick"

Max(a, b) == IF a >= b THEN a ELSE b

Repeat(c, n) == [k \in 1..n |-> c]

\* ts has n backticks in a row
HasRun(ts, n) ==
  \E i \in 1..(Len(ts) - n + 1) : \A k \in i..(i + n - 1) : ts[k] = Tick

\* maxTicks: the length of the longest run of backticks of codeText
maxTicks(ts) ==
  CHOOSE n \in 0..Len(ts) : HasRun(ts, n) /\ \A m \in (n + 1)..Len(ts) : ~HasRun(ts, m)

\* fence: Math.max(3, maxTicks + 1) backticks
fenceOf(codeText) == Repeat(Tick, Max(3, maxTicks(codeText) + 1))

\* className.match(/language-([\w-]+)/)?.[1] ?? '': the longest prefix of
\* the language name made of word characters and hyphens
classLang(cls) ==
  CASE cls = "language-python" -> <<"python">>
    [] cls = "language-c++" -> <<"c">>
    [] OTHER -> <<>>

\* The block without its closing fence.
fencedUnclosed(lang, codeText) ==
  <<"\n", "\n">> \o fenceOf(codeText) \o lang \o <<"\n">> \o codeText \o <<"\n", "\n">>

\* \n\n${fence}${lang}\n${codeText}\n${fence}\n\n
fenced(lang, codeText) ==
  <<"\n", "\n">> \o fenceOf(codeText) \o lang \o <<"\n">> \o codeText
    \o <<"\n">> \o fenceOf(codeText) \o <<"\n", "\n">>

\* codeRule: <pre> whose first element child is <code>
codeRule(node) == fenced(classLang(node.cls), trimEnd(node.text))

\* preBlocks: <pre> whose first element child is not <code>
preBlocks(node) == fenced(<<>>, trimEnd(node.text))

\* inlineCodeToBlock: <code> outside <pre> with a newline or over 240 characters
inlineCodeToBlock(text) == fenced(<<>>, trimEnd(text))

\* codeText.replace(/\s{2,}/g, '\n')
RECURSIVE splitOnBlanks(_)
splitOnBlanks(ts) ==
  IF ts = <<>> THEN <<>>
  ELSE IF Len(ts) >= 2 /\ IsSpace(ts[1]) /\ IsSpace(ts[2])
       THEN <<"\n">> \o splitOnBlanks(trimStart(ts))
       ELSE <<Head(ts)>> \o splitOnBlanks(Tail(ts))

HasNewline(ts) == \E k \in 1..Len(ts) : ts[k] = "\n"

HasBlanks(ts) == \E k \in 1..(Len(ts) - 1) : IsSpace(ts[k]) /\ IsSpace(ts[k + 1])

\* fencedCodeFallback: block-looking <code>; works on the converted content
fencedCodeFallback(content) ==
  LET t == trimEnd(content)
      codeText == IF ~HasNewline(t) /\ HasBlanks(t) THEN splitOnBlanks(t) ELSE t
  IN fenced(<<>>, codeText)

\* The maximal runs of backticks of ts, as <<first position, length>>.
TickRuns(ts) ==
  { <<i, n>> \in (1..Len(ts)) \X (1..Len(ts)) :
      /\ i + n - 1 <= Len(ts)
      /\ \A k \in i..(i + n - 1) : ts[k] = Tick
      /\ (i = 1 \/ ts[i - 1] # Tick)
      /\ (i + n - 1 = Len(ts) \/ ts[i + n] # Tick) }

\* Turndown collapses white space outside <pre> before the rules run: a run
\* of blanks and newlines becomes one blank, none is left at either end.
RECURSIVE collapseRuns(_)
collapseRuns(ts) ==
  IF ts = <<>> THEN <<>>
  ELSE IF IsSpace(Head(ts)) THEN <<" ">> \o collapseRuns(trimStart(ts))
       ELSE <<Head(ts)>> \o collapseRuns(Tail(ts))

collapseWhitespace(ts) == collapseRuns(trim(ts))

\* Turndown's rule for inline <code>: the delimiter is the shortest run of
\* backticks that is not one of the content's runs, with a blank inside when
\* the content starts or ends with a backtick.
inlineCode(content) ==
  IF content = <<>> THEN <<>>
  ELSE LET lens == {r[2] : r \in TickRuns(content)}
           d == CHOOSE n \in 1..(Len(content) + 1) :
                  n \notin lens /\ \A m \in 1..(n - 1) : m \in lens
           extraSpace == IF Head(content) = Tick \/ content[Len(content)] = Tick
                         THEN <<" ">> ELSE <<>>
       IN Repeat(Tick, d) \o extraSpace \o content \o extraSpace \o Repeat(Tick, d)

\* A code element of a message.
\*   kind   "pre>code" (<pre> whose first element child is <code>), "pre"
\*          (<pre> without <code>), "pre>div>code" (<pre> whose <code> sits
\*          in a wrapper) or "code" (<code> outside <pre>)
\*   cls    class of the <code> element
\*   parent parent of a "code" element: "div", "div.code-block" or "span"
\*   long   the text has more than 240 characters
\*   text   the characters of textContent that matter here
CodeChars == {Tick, "a", "\n"}

CodeNodes ==
  { [kind |-> k[1], cls |-> k[2], parent |-> k[3], long |-> k[4], text |-> t] :
      k \in ({"pre>code"} \X {"", "language-python", "language-c++"} \X {"pre"} \X {FALSE})
            \cup ({"pre"} \X {""} \X {"div"} \X {FALSE})
            \cup ({"pre>div>code"} \X {"language-python"} \X {"div"} \X {FALSE})
            \cup ({"code"} \X {"", "language-python"}
                    \X {"div", "div.code-block", "span"} \X BOOLEAN),
      t \in SeqsUpTo(CodeChars, MaxCodeLen) }

\* normalizeCodeBlocks (scripted path): every <pre> gets its text in a <code>
\* (a new one, directly under the <pre>, when it has none); a block-looking
\* <code> outside <pre> is replaced by a new <pre><code>, without its class.
normalizeCodeBlocks(node) ==
  CASE node.kind = "pre" -> [node EXCEPT !.kind = "pre>code"]
    [] node.kind = "code" /\ (HasNewline(node.text) \/ node.long
                               \/ node.parent \in {"div", "div.code-block"})
         -> [node EXCEPT !.kind = "pre>code", !.cls = "", !.parent = "pre"]
    [] OTHER -> node

\* The rule Turndown applies to the node (the first whose filter accepts it,
\* in the order codeRule, inlineCodeToBlock, preBlocks, fencedCodeFallback,
\* inline code) and what the rule returns.
ruleFor(node) ==
  CASE node.kind = "pre>code" -> "codeRule"
    [] node.kind \in {"pre", "pre>div>code"} -> "preBlocks"
    [] HasNewline(collapseWhitespace(node.text)) \/ node.long -> "inlineCodeToBlock"
    [] node.parent = "div.code-block" -> "fencedCodeFallback"
    [] OTHER -> "code"

replacement(node) ==
  CASE ruleFor(node) = "codeRule" -> codeRule(node)
    [] ruleFor(node) = "preBlocks" -> preBlocks(node)
    [] ruleFor(node) = "inlineCodeToBlock" -> inlineCodeToBlock(collapseWhitespace(node.text))
    [] ruleFor(node) = "fencedCodeFallback" -> fencedCodeFallback(collapseWhitespace(node.text))
    [] OTHER -> inlineCode(collapseWhitespace(node.text))

RECURSIVE stripNewlines(_)
stripNewlines(ts) == IF ts # <<>> /\ Head(ts) = "\n" THEN stripNewlines(Tail(ts)) ELSE ts

\* td.turndown(html): leading newlines and trailing white space are dropped
turndown(node) == trimEnd(stripNewlines(replacement(node)))

\* markdown.replace(/\n{3,}/g, '\n\n')
RECURSIVE collapseNewlines(_)
collapseNewlines(ts) ==
  IF ts = <<>> THEN <<>>
  ELSE IF Len(ts) >= 3 /\ ts[1] = "\n" /\ ts[2] = "\n" /\ ts[3] = "\n"
       THEN <<"\n", "\n">> \o collapseNewlines(stripNewlines(ts))
       ELSE <<Head(ts)>> \o collapseNewlines(Tail(ts))

\* lines.join('\n')
RECURSIVE Join(_)
Join(ls) ==
  IF ls = <<>> THEN <<>>
  ELSE IF Len(ls) = 1 THEN ls[1] ELSE ls[1] \o <<"\n">> \o Join(Tail(ls))

\* A replacement of the line separator only.
normalizeLineSeparators(ts) ==
  [k \in 1..Len(ts) |-> IF ts[k] = "U+2028" THEN "\n" ELSE ts[k]]

\* normalizeLineTerminators: U+2028 and U+2029 become newlines
normalizeLineTerminators(ts) ==
  [k \in 1..Len(ts) |-> IF ts[k] \in {"U+2028", "U+2029"} THEN "\n" ELSE ts[k]]

roleLabel(role) == IF role = "user" THEN "## User" ELSE "## Assistant"

PageTitle == <<"ChatGPT", "-", "txt">>

\* The conversations converted: one message, or two with the second taken
\* from SecondNodes.  Message k holds the code element conv[k]; the first
\* message is the user's, the next the assistant's.
SecondNodes ==
  { [kind |-> "pre>code", cls |-> "language-python", parent |-> "pre",
     long |-> FALSE, text |-> <<Tick, Tick, Tick>>],
    [kind |-> "pre>code", cls |-> "", parent |-> "pre",
     long |-> FALSE, text |-> <<"a", "U+2028", "U+2029", "a">>],
    [kind |-> "pre", cls |-> "", parent |-> "div", long |-> FALSE, text |-> <<"a">>] }

Conversations ==
  { <<n>> : n \in CodeNodes } \cup { <<n, s>> : n \in CodeNodes, s \in SecondNodes }

roleAt(k) == IF k % 2 = 1 THEN "user" ELSE "assistant"

\* the page titles and share URLs of the conversations
PageTitles == {PageTitle, <<"ChatGPT", "-", "txt", "U+2028", "txt">>}
ShareUrls == {<<"url">>, <<"url", "U+2029">>}
PageHeads == {<<PageTitle, <<"url">> >>} \cup
             {h \in PageTitles \X ShareUrls : h[1] # PageTitle /\ h[2] # <<"url">>}

MarkdownIdle ==
  /\ tpc = "idle" /\ backend = "scripted" /\ conv = <<>> /\ ti = 0
  /\ mds = <<>> /\ lines = <<>> /\ tmd = <<>>
  /\ docTitle = <<>> /\ shareUrl = <<>>

MarkdownInit ==
  /\ tpc = "start"
  /\ backend \in {"scripted", "attached"}
  /\ conv \in Conversations
  /\ ti = 0
  /\ mds = <<>>
  /\ lines = <<>>
  /\ tmd = <<>>
  /\ \E h \in PageHeads : docTitle = h[1] /\ shareUrl = h[2]

\* the heading, Source and Retrieved lines
MdHeader ==
  /\ tpc = "start"
  /\ lines' = << <<"# ChatGPT Conversation: ">> \o stripProviderPrefix(docTitle),
                 <<>>, <<"Source: ">> \o shareUrl, <<"Retrieved: now">>, <<>> >>
  /\ ti' = 1
  /\ tpc' = "loop"
  /\ UNCHANGED <<backend, conv, mds, tmd, docTitle, shareUrl, scrapeVars, notMarkdown>>

\* for (const msg of messages): the role heading, the message's HTML through
\* Turndown (in the scripted path the HTML was normalised at extraction), the
\* clean-up of the result, and the pushes onto lines
MdMessage ==
  /\ tpc = "loop"
  /\ ti <= Len(conv)
  /\ LET node == IF backend = "scripted" THEN normalizeCodeBlocks(conv[ti]) ELSE conv[ti]
         out == turndown(node)
         md == trim(collapseNewlines(out))
     IN /\ mds' = Append(mds, [rule |-> ruleFor(node), md |-> out])
        /\ lines' = lines \o << <<roleLabel(roleAt(ti))>>, <<>>, md, <<>> >>
  /\ ti' = ti + 1
  /\ UNCHANGED <<tpc, backend, conv, tmd, docTitle, shareUrl, scrapeVars, notMarkdown>>

\* return { title, markdown: normalizeLineTerminators(lines.join('\n')), ... }
MdReturn ==
  /\ tpc = "loop"
  /\ ti > Len(conv)
  /\ tmd' = normalizeLineTerminators(Join(lines))
  /\ tpc' = "done"
  /\ UNCHANGED <<backend, conv, ti, mds, lines, docTitle, shareUrl, scrapeVars, notMarkdown>>

MarkdownNext == MdHeader \/ MdMessage \/ MdReturn

\* ------------------------------------------------------------------------
\* detectProvider.  A URL either does not parse (new URL throws) or has a
\* hostname, a sequence of dot-separated labels.
\* ------------------------------------------------------------------------
MaxHostLen == 3

\* { id, patterns } in the order of the source; a pattern is the labels the
\* hostname has to end with (the regular expressions are anchored at the end
\* only).
PROVIDER_PATTERNS ==
  << [id |-> "gemini",  patterns |-> << <<"gemini", "google", "com">> >>],
     [id |-> "grok",    patterns |-> << <<"grok", "com">>, <<"grok", "x", "ai">> >>],
     [id |-> "claude",  patterns |-> << <<"claude", "ai">> >>],
     [id |-> "chatgpt", patterns |-> << <<"chatgpt", "com">>, <<"openai", "com">>,
                                        <<"share", "chatgpt", "com">> >>] >>

HostLabels ==
  {"gemini", "google", "com", "grok", "x", "ai", "claude", "chatgpt", "openai",
   "share", "xgrok", "GROK"}

\* String.toLowerCase on a label
toLowerCase(l) == IF l = "GROK" THEN "grok" ELSE l

\* the label ends with the characters of w
EndsWith(l, w) == l = w \/ (l = "xgrok" /\ w = "grok")

\* p.test(host): the pattern is not anchored at the start, so its first
\* label may be the tail of a longer label
patternTest(p, host) ==
  /\ Len(host) >= Len(p)
  /\ LET off == Len(host) - Len(p)
     IN /\ EndsWith(host[off + 1], p[1])
        /\ \A k \in 2..Len(p) : host[off + k] = p[k]

\* entry.patterns.some(p => p.test(host))
entryMatches(entry, host) ==
  \E k \in 1..Len(entry.patterns) : patternTest(entry.patterns[k], host)

Urls ==
  { [parses |-> FALSE, hostname |-> <<>>] }
  \cup { [parses |-> TRUE, hostname |-> h] : h \in SeqsUpTo(HostLabels, MaxHostLen) }

RECURSIVE firstEntry(_, _)
firstEntry(entries, host) ==
  IF entries = <<>> THEN "chatgpt"
  ELSE IF entryMatches(Head(entries), host) THEN Head(entries).id
       ELSE firstEntry(Tail(entries), host)

\* detectProvider without its try/catch.
detectProviderUncaught(u) ==
  IF ~u.parses THEN "TypeError"
  ELSE firstEntry(PROVIDER_PATTERNS, [k \in 1..Len(u.hostname) |-> toLowerCase(u.hostname[k])])

detectProvider(u) ==
  IF ~u.parses THEN "chatgpt"
  ELSE firstEntry(PROVIDER_PATTERNS, [k \in 1..Len(u.hostname) |-> toLowerCase(u.hostname[k])])

DetectIdle == dpc = "idle" /\ url = [parses |-> FALSE, hostname |-> <<>>] /\ detected = "none"

DetectInit == dpc = "call" /\ url \in Urls /\ detected = "none"

Detect ==
  /\ dpc = "call"
  /\ detected' = detectProvider(url)
  /\ dpc' = "returned"
  /\ UNCHANGED <<url, scrapeVars, notDetect>>

DetectNext == Detect

\* ------------------------------------------------------------------------
\* The output files.  All runs export the same conversation on the same day
\* into the same directory, so the stem `name` is the same.  A path is
\* <<k, ext>>: <<1, ext>> is name.ext, <<k, ext>> with k >= 2 is name_k.ext
\* and <<0, ext>> is the name with the time and a random suffix.  The content
\* at a path is absent, full (by |-> 0: there before the first run, else the
\* run that wrote it) or partial.
\* ------------------------------------------------------------------------
MaxRuns == 2

\* const MAX_ATTEMPTS = 1000, scaled down
MAX_ATTEMPTS == 4

Exts == {"md", "html"}
OutPaths == (0..(MAX_ATTEMPTS - 1)) \X Exts
NoPath == <<0 - 1, "none">>

Absent == [st |-> "absent", by |-> 0]
Full(r) == [st |-> "full", by |-> r]
Partial(r) == [st |-> "partial", by |-> r]

\* fs.existsSync
existsSync(f, p) == f[p].st # "absent"

\* A uniquePath that returns the _2 name without looking.
uniquePathUnchecked(f, basePath) ==
  IF ~existsSync(f, basePath) THEN basePath
  ELSE <<2, basePath[2]>>

\* uniquePath(basePath); NoPath stands for the throw
uniquePath(f, basePath) ==
  IF ~existsSync(f, basePath) THEN basePath
  ELSE LET free == {idx \in 2..(MAX_ATTEMPTS - 1) : ~existsSync(f, <<idx, basePath[2]>>)}
           fallback == <<0, basePath[2]>>
       IN IF free # {}
          THEN <<CHOOSE idx \in free : \A j \in free : idx <= j, basePath[2]>>
          ELSE IF ~existsSync(f, fallback) THEN fallback ELSE NoPath

NoneWritten == [e \in Exts |-> NoPath]

FilesIdle ==
  /\ fpc = "off" /\ run = 0 /\ produceMd = TRUE /\ produceHtml = TRUE /\ kind = "md"
  /\ fs = [p \in OutPaths |-> Absent]
  /\ target = NoPath /\ tmp = "absent" /\ werr = FALSE /\ unlinkFailed = FALSE
  /\ written = NoneWritten

FilesInit ==
  /\ fpc = "ready" /\ run = 0 /\ produceMd = TRUE /\ produceHtml = TRUE /\ kind = "md"
  /\ fs \in [OutPaths -> {Absent, Full(0)}]
  /\ target = NoPath /\ tmp = "absent" /\ werr = FALSE /\ unlinkFailed = FALSE
  /\ written = NoneWritten

\* a run of main reaches the writing of its outputs
StartRun ==
  /\ fpc \in {"ready", "done", "failed", "killed"}
  /\ run < MaxRuns
  /\ run' = run + 1
  /\ \E m, h \in BOOLEAN : (m \/ h) /\ produceMd' = m /\ produceHtml' = h
  /\ kind' = "md"
  /\ fpc' = "resolve"
  /\ target' = NoPath
  /\ tmp' = "absent"
  /\ werr' = FALSE
  /\ unlinkFailed' = FALSE
  /\ written' = NoneWritten
  /\ UNCHANGED <<fs, scrapeVars, notFiles>>

\* after the Markdown comes the HTML, after the HTML the run is through
Advance ==
  IF kind = "md" THEN kind' = "html" /\ fpc' = "resolve"
  ELSE kind' = kind /\ fpc' = "done"

\* if (produceMd) / if (produceHtml):
\* const target = fs.existsSync(outfile) ? uniquePath(outfile) : outfile
ResolveTarget ==
  /\ fpc = "resolve"
  /\ IF (kind = "md" /\ ~produceMd) \/ (kind = "html" /\ ~produceHtml)
     THEN /\ Advance
          /\ UNCHANGED target
     ELSE LET outfile == <<1, kind>>
              t == IF existsSync(fs, outfile) THEN uniquePath(fs, outfile) ELSE outfile
          IN /\ target' = t
             /\ kind' = kind
             /\ fpc' = IF t = NoPath THEN "failed" ELSE "write"
  /\ UNCHANGED <<run, produceMd, produceHtml, fs, tmp, werr, unlinkFailed, written,
                 scrapeVars, notFiles>>

\* A write straight into the target.
WaWriteInPlace ==
  /\ fpc = "write"
  /\ \/ /\ fs' = [fs EXCEPT ![target] = Full(run)]
        /\ fpc' = "finally"
        /\ werr' = FALSE
     \/ /\ fs' = [fs EXCEPT ![target] = Partial(run)]
        /\ fpc' = "finally"
        /\ werr' = TRUE
  /\ UNCHANGED <<run, produceMd, produceHtml, kind, target, tmp, unlinkFailed, written,
                 scrapeVars, notFiles>>

\* writeAtomic: mkdirSync, a fresh tmp name, fs.writeFileSync(tmp, content);
\* a failed write leaves no tmp or a partial one
WaWrite ==
  /\ fpc = "write"
  /\ \/ /\ tmp' = "full"
        /\ fpc' = "rename"
        /\ werr' = FALSE
     \/ /\ tmp' \in {"absent", "partial"}
        /\ fpc' = "finally"
        /\ werr' = TRUE
  /\ UNCHANGED <<run, produceMd, produceHtml, kind, fs, target, unlinkFailed, written,
                 scrapeVars, notFiles>>

\* fs.renameSync(tmp, target): the target gets the tmp's content, or the
\* call throws and nothing has changed
WaRename ==
  /\ fpc = "rename"
  /\ \/ /\ fs' = [fs EXCEPT ![target] = Full(run)]
        /\ tmp' = "absent"
        /\ werr' = werr
     \/ /\ werr' = TRUE
        /\ UNCHANGED <<fs, tmp>>
  /\ fpc' = "finally"
  /\ UNCHANGED <<run, produceMd, produceHtml, kind, target, unlinkFailed, written,
                 scrapeVars, notFiles>>

\* finally { if (fs.existsSync(tmp)) { try { fs.unlinkSync(tmp) } catch {} } },
\* then the return to main (writtenFiles.push) or the rethrow
WaFinally ==
  /\ fpc = "finally"
  /\ IF tmp # "absent"
     THEN \/ tmp' = "absent" /\ unlinkFailed' = FALSE
          \/ tmp' = tmp /\ unlinkFailed' = TRUE
     ELSE UNCHANGED <<tmp, unlinkFailed>>
  /\ IF werr
     THEN /\ fpc' = "failed"
          /\ UNCHANGED <<kind, written>>
     ELSE /\ written' = [written EXCEPT ![kind] = target]
          /\ Advance
  /\ UNCHANGED <<run, produceMd, produceHtml, fs, target, werr, scrapeVars, notFiles>>

\* the process is interrupted inside writeAtomic: a write in progress leaves
\* no tmp, a partial one or a full one; a rename has happened or has not
Interrupt ==
  /\ fpc \in {"write", "rename", "finally"}
  /\ fpc' = "killed"
  /\ \/ /\ fpc = "write"
        /\ tmp' \in {"absent", "partial", "full"}
        /\ fs' = fs
     \/ /\ fpc = "rename"
        /\ \/ fs' = [fs EXCEPT ![target] = Full(run)] /\ tmp' = "absent"
           \/ UNCHANGED <<fs, tmp>>
     \/ /\ fpc = "finally"
        /\ UNCHANGED <<fs, tmp>>
  /\ UNCHANGED <<run, produceMd, produceHtml, kind, target, werr, unlinkFailed, written,
                 scrapeVars, notFiles>>

FilesNext ==
  StartRun \/ ResolveTarget \/ WaWrite \/ WaRename \/ WaFinally \/ Interrupt

\* ------------------------------------------------------------------------
\* The waits of scrape.  timeoutMs is a multiple of BudgetStep, so that the
\* halves, quarters and sixths the code takes are whole numbers.
\* ------------------------------------------------------------------------
MaxBudgetSteps == 200
BudgetStep == 600

Min(a, b) == IF a <= b THEN a ELSE b

RECURSIVE SumSeq(_)
SumSeq(q) == IF q = <<>> THEN 0 ELSE Head(q) + SumSeq(Tail(q))

WaitsIdle ==
  /\ wpc = "off" /\ timeoutMs = BudgetStep /\ bound = 0 /\ bounded = TRUE

WaitsInit ==
  /\ wpc = "start"
  /\ timeoutMs \in {BudgetStep * k : k \in 1..MaxBudgetSteps}
  /\ bound = 0
  /\ bounded = TRUE

\* one stage: from pc `here` to pc `next`, waiting at most b
Stage(here, next, b) ==
  /\ wpc = here
  /\ wpc' = next
  /\ bound' = b
  /\ bounded' = TRUE
  /\ UNCHANGED <<timeoutMs, scrapeVars, notWaits>>

\* page.goto(url, { timeout: Math.max(10000, timeoutMs / 2) })
WGoto == Stage("start", "goto", Max(10000, timeoutMs \div 2))

\* page.waitForLoadState('networkidle', { timeout: Math.max(5000, timeoutMs / 4) })
WNetworkIdle == Stage("goto", "networkidle", Max(5000, timeoutMs \div 4))

\* the challenge loop: page.waitForTimeout(challengeWaits[i]) for each i
WChallenge == Stage("networkidle", "challenge", SumSeq(challengeWaits))

\* findSelector: perTry = Math.max(2000, timeoutMs / 6) for each group
WFindSelector == Stage("challenge", "findSelector", Max(2000, timeoutMs \div 6))

\* page.waitForSelector(selector, { timeout: Math.max(4000, timeoutMs / 2) })
WContent == Stage("findSelector", "content", Max(4000, timeoutMs \div 2))

\* page.waitForTimeout(Math.min(3000, Math.max(500, timeoutMs / 6)))
WGrace == Stage("content", "grace", Min(3000, Max(500, timeoutMs \div 6)))

\* the attached fallback: rl.question('', ...) waits for the Enter key
WPrompt ==
  /\ wpc \in {"goto", "challenge", "findSelector"}
  /\ wpc' = "prompt"
  /\ bounded' = FALSE
  /\ UNCHANGED <<timeoutMs, bound, scrapeVars, notWaits>>

WaitsNext ==
  \/ WGoto \/ WNetworkIdle \/ WChallenge \/ WFindSelector \/ WContent \/ WGrace
  \/ WPrompt

\* ------------------------------------------------------------------------
\* collectDeep over a tree.  The elements are 1..MaxTreeNodes; element 1 is
\* <html>, the only child of the document (0), and hosts no shadow root.
\* parent[i] is the element i hangs under, edge[i] says whether i is a child
\* of parent[i] itself ("child") or of parent[i]'s shadow root ("shadow"),
\* and match[i] whether one of the selectors matches i.
\* ------------------------------------------------------------------------
MaxTreeNodes == 4

Elements == 1..MaxTreeNodes

Trees ==
  { t \in [parent : [Elements -> 0..(MaxTreeNodes - 1)],
           edge : [Elements -> {"child", "shadow"}],
           match : [Elements -> BOOLEAN]] :
      /\ t.parent[1] = 0 /\ t.edge[1] = "child"
      /\ \A i \in Elements \ {1} : t.parent[i] \in 1..(i - 1)
      /\ \A i \in Elements : t.parent[i] = 1 => t.edge[i] = "child" }

\* root.childNodes of an element or of the document
ChildNodes(t, n) == {i \in Elements : t.parent[i] = n /\ t.edge[i] = "child"}

\* shadowRoot.childNodes of a host
ShadowChildNodes(t, h) == {i \in Elements : t.parent[i] = h /\ t.edge[i] = "shadow"}

\* the elements below the nodes of `top`, themselves included, in the same
\* tree scope: what root.querySelectorAll can see when top = root.childNodes
RECURSIVE Descendants(_, _)
Descendants(t, top) ==
  IF top = {} THEN {}
  ELSE top \cup Descendants(t, UNION {ChildNodes(t, n) : n \in top})

\* collectDeep(root, selectors, acc, seen), with top = root.childNodes:
\* the matches of root.querySelectorAll, then the shadow roots of the child
\* nodes of root
RECURSIVE collectDeepTree(_, _)
collectDeepTree(t, top) ==
  {i \in Descendants(t, top) : t.match[i]}
  \cup UNION {collectDeepTree(t, ShadowChildNodes(t, c)) :
               c \in {n \in top : ShadowChildNodes(t, n) # {}}}

TreeIdle ==
  /\ cpc = "off"
  /\ tree = [parent |-> [i \in Elements |-> i - 1],
             edge |-> [i \in Elements |-> "child"],
             match |-> [i \in Elements |-> FALSE]]
  /\ collected = {}

TreeInit ==
  /\ cpc = "call"
  /\ tree \in Trees
  /\ collected = {}

\* collectDeep(document, selectorsFlat, nodes, new Set())
CollectDeep ==
  /\ cpc = "call"
  /\ collected' = collectDeepTree(tree, ChildNodes(tree, 0))
  /\ cpc' = "done"
  /\ UNCHANGED <<tree, scrapeVars, notTree>>

TreeNext == CollectDeep

\* ------------------------------------------------------------------------
\* Heading ids over successive calls of renderHtmlDocument.  The Markdown of
\* a call is a sequence of level-2 headings; each call makes its own counts
\* and headings, md.render calls heading_open once per heading in order, and
\* the call returns the headings with their ids followed by the contents
\* list.
\* ------------------------------------------------------------------------
MaxHeadings == 3
MaxCalls == 3

HeadingTexts == { <<"txt">>, <<" ", "txt", " ", " ", "1">>, <<"/">> }
HeadingDocs == SeqsUpTo(HeadingTexts, MaxHeadings)

NoCall == [doc |-> <<>>, out |-> <<>>]

HeadingsIdle ==
  /\ hpc = "off" /\ hdoc = <<>> /\ counts = NoCounts /\ headings = <<>>
  /\ hout = <<>> /\ first = NoCall /\ ncalls = 0

HeadingsInit ==
  /\ hpc = "ready" /\ hdoc = <<>> /\ counts = NoCounts /\ headings = <<>>
  /\ hout = <<>> /\ first = NoCall /\ ncalls = 0

\* An entry that keeps the counts of the call before.
HCallSharedCounts ==
  /\ hpc \in {"ready", "returned"}
  /\ ncalls < MaxCalls
  /\ \E d \in HeadingDocs : hdoc' = d
  /\ counts' = counts
  /\ headings' = <<>>
  /\ hout' = <<>>
  /\ ncalls' = ncalls + 1
  /\ hpc' = "render"
  /\ UNCHANGED <<first, scrapeVars, notHeadings>>

\* renderHtmlDocument entry: const counts = new Map(); const headings = []
HCall ==
  /\ hpc \in {"ready", "returned"}
  /\ ncalls < MaxCalls
  /\ \E d \in HeadingDocs : hdoc' = d
  /\ counts' = NoCounts
  /\ headings' = <<>>
  /\ hout' = <<>>
  /\ ncalls' = ncalls + 1
  /\ hpc' = "render"
  /\ UNCHANGED <<first, scrapeVars, notHeadings>>

\* md.renderer.rules.heading_open for the next heading of the document
heading_open ==
  /\ hpc = "render"
  /\ Len(headings) < Len(hdoc)
  /\ LET text == hdoc[Len(headings) + 1]
         r == headingSlug(text, counts)
     IN /\ counts' = r.counts
        /\ headings' = Append(headings, [text |-> text, id |-> r.id])
  /\ UNCHANGED <<hpc, hdoc, hout, first, ncalls, scrapeVars, notHeadings>>

\* the rendered headings, then the contents list built from `headings`
HeadingsHtml(hs) ==
  Flatten([k \in 1..Len(hs) |->
             <<"<h2 id=\"">> \o hs[k].id \o <<"\">">> \o MdInline(hs[k].text)
               \o <<"</h2>">>])
  \o Flatten([k \in 1..Len(hs) |->
               <<"<li><a href=\"#">> \o hs[k].id \o <<"\">">>
                 \o escapeHtml(hs[k].text) \o <<"</a></li>">>])

\* md.render is through: assemble and return the document
HReturn ==
  /\ hpc = "render"
  /\ Len(headings) = Len(hdoc)
  /\ hout' = HeadingsHtml(headings)
  /\ first' = IF ncalls = 1 THEN [doc |-> hdoc, out |-> HeadingsHtml(headings)] ELSE first
  /\ hpc' = "returned"
  /\ UNCHANGED <<hdoc, counts, headings, ncalls, scrapeVars, notHeadings>>

\* the parts that follow the four above are not running
HeadingsNext == HCall \/ heading_open \/ HReturn

\* ------------------------------------------------------------------------
\* main publishing to GitHub Pages: confirmPublish, ensureGhAvailable and
\* publishToGhPages. The answer typed at the prompt is a sequence of tokens,
\* the word PROCEED being one token.
\* ------------------------------------------------------------------------

\* the flags of the command line that set yes
YesFlags == {"--yes", "--no-confirm"}

PROCEED == <<"PROCEED">>

\* the lines a user may type at the prompt
Answers ==
  { PROCEED, <<" ", "PROCEED", " ">>, <<"PROCEED", "\n">>, <<"proceed">>,
    <<"PROCEED", " ", "1">>, <<"1">>, <<>> }

PublishIdle ==
  /\ ppc = "off" /\ yes = FALSE /\ isTTY = FALSE /\ dryRun = FALSE
  /\ shouldPublish = FALSE /\ answer = <<>> /\ confirmed = FALSE
  /\ called = FALSE /\ copied = FALSE /\ committed = FALSE /\ pushed = FALSE
  /\ perr = "none"

\* main after the outputs are written: the flags are parsed, nothing is
\* published yet
PublishInit ==
  /\ ppc = "written"
  /\ \E flags \in SUBSET YesFlags : yes = (flags # {})
  /\ isTTY \in BOOLEAN
  /\ dryRun \in BOOLEAN
  /\ shouldPublish \in BOOLEAN
  /\ answer = <<>> /\ confirmed = FALSE /\ called = FALSE
  /\ copied = FALSE /\ committed = FALSE /\ pushed = FALSE
  /\ perr = "none"

\* main fails with an error
PublishThrow(e) ==
  /\ ppc' = "failed"
  /\ perr' = e

\* if (shouldPublish) { ... await confirmPublish(publishSummary, yes)
confirmPublish ==
  /\ ppc = "written"
  /\ IF ~shouldPublish
       THEN ppc' = "done" /\ UNCHANGED <<confirmed, perr>>
       ELSE IF yes
         THEN ppc' = "confirmed" /\ confirmed' = TRUE /\ UNCHANGED perr
         ELSE IF ~isTTY
           THEN PublishThrow("requires-confirmation") /\ UNCHANGED confirmed
           ELSE ppc' = "prompt" /\ UNCHANGED <<confirmed, perr>>
  /\ UNCHANGED <<yes, isTTY, dryRun, shouldPublish, answer, called, copied, committed, pushed>>
  /\ UNCHANGED <<scrapeVars, notPublish>>

\* the answer of rl.question is accepted whatever it is
confirmPublishAnyAnswer ==
  /\ ppc = "prompt"
  /\ \E a \in Answers :
       /\ answer' = a
       /\ ppc' = "confirmed" /\ confirmed' = TRUE /\ UNCHANGED perr
  /\ UNCHANGED <<yes, isTTY, dryRun, shouldPublish, called, copied, committed, pushed>>
  /\ UNCHANGED <<scrapeVars, notPublish>>

\* const answer = await rl.question('> '); if (answer.trim() !== 'PROCEED') throw
confirmPublishAnswer ==
  /\ ppc = "prompt"
  /\ \E a \in Answers :
       /\ answer' = a
       /\ IF trim(a) # PROCEED
            THEN PublishThrow("cancelled") /\ UNCHANGED confirmed
            ELSE ppc' = "confirmed" /\ confirmed' = TRUE /\ UNCHANGED perr
  /\ UNCHANGED <<yes, isTTY, dryRun, shouldPublish, called, copied, committed, pushed>>
  /\ UNCHANGED <<scrapeVars, notPublish>>

\* if (!dryRun) ensureGhAvailable(autoInstallGh): gh is there, or it throws
ensureGhAvailable ==
  /\ ppc = "confirmed"
  /\ \/ ppc' = "publishing" /\ UNCHANGED perr
     \/ ~dryRun /\ PublishThrow("gh-unavailable")
  /\ UNCHANGED <<yes, isTTY, dryRun, shouldPublish, answer, confirmed, called, copied,
                 committed, pushed>>
  /\ UNCHANGED <<scrapeVars, notPublish>>

\* publishToGhPages is entered: a dry run works in a temporary directory,
\* any other run clones the repository, or throws when no clone succeeds
publishToGhPages ==
  /\ ppc = "publishing"
  /\ called' = TRUE
  /\ \/ ppc' = "cloned" /\ UNCHANGED perr
     \/ ~dryRun /\ PublishThrow("clone-failed")
  /\ UNCHANGED <<yes, isTTY, dryRun, shouldPublish, answer, confirmed, copied,
                 committed, pushed>>
  /\ UNCHANGED <<scrapeVars, notPublish>>

\* fs.copyFileSync(file.path, dest) for each written file, then the manifest
\* and the index; a dry run returns here
ghCopy ==
  /\ ppc = "cloned"
  /\ copied' = TRUE
  /\ ppc' = IF dryRun THEN "done" ELSE "copied"
  /\ UNCHANGED <<yes, isTTY, dryRun, shouldPublish, answer, confirmed, called,
                 committed, pushed, perr>>
  /\ UNCHANGED <<scrapeVars, notPublish>>

\* safeRun(['add', '.']), git status, safeRun(['commit', ...]): nothing to
\* commit returns, a failing git throws
ghCommit ==
  /\ ppc = "copied"
  /\ \/ ppc' = "committed" /\ committed' = TRUE /\ UNCHANGED perr
     \/ ppc' = "done" /\ UNCHANGED <<committed, perr>>
     \/ PublishThrow("git-failed") /\ UNCHANGED committed
  /\ UNCHANGED <<yes, isTTY, dryRun, shouldPublish, answer, confirmed, called,
                 copied, pushed>>
  /\ UNCHANGED <<scrapeVars, notPublish>>

\* the push, retried by gitWithRetry, succeeds or throws
ghPush ==
  /\ ppc = "committed"
  /\ \/ ppc' = "done" /\ pushed' = TRUE /\ UNCHANGED perr
     \/ PublishThrow("push-failed") /\ UNCHANGED pushed
  /\ UNCHANGED <<yes, isTTY, dryRun, shouldPublish, answer, confirmed, called,
                 copied, committed>>
  /\ UNCHANGED <<scrapeVars, notPublish>>

PublishNext ==
  \/ confirmPublish \/ confirmPublishAnswer \/ ensureGhAvailable
  \/ publishToGhPages \/ ghCopy \/ ghCommit \/ ghPush

\* ------------------------------------------------------------------------
\* attemptWithBackoff(fn, timeoutMs, label).  The clock starts at 0 and moves
\* in steps of baseDelay; the error of the k-th call of fn is the number k.
\* ------------------------------------------------------------------------

\* the longest timeoutMs, in steps of baseDelay
MaxDeadlineSteps == 5

\* the longest run of fn, in steps of baseDelay
MaxFnSteps == 2

\* const attempts = 3
attempts == 3

\* const baseDelay = 500
baseDelay == 500

BackoffIdle ==
  /\ bpc = "off" /\ deadline = 0 /\ bnow = 0 /\ bi = 0 /\ tries = 0 /\ lastErr = 0
  /\ ncalled = 0 /\ sleeps = <<>> /\ made = 0

\* const deadline = Date.now() + timeoutMs; let tries = 0; i = 0
BackoffInit ==
  /\ bpc = "call"
  /\ \E k \in 0..MaxDeadlineSteps : deadline = k * baseDelay
  /\ bnow = 0 /\ bi = 0 /\ tries = 0 /\ lastErr = 0
  /\ ncalled = 0 /\ sleeps = <<>> /\ made = 0

\* the catch block of an attempt that sleeps after every failed attempt,
\* whatever the deadline
catchSleepAlways(t) == IF bi < attempts THEN "sleep" ELSE "throw"

\* the catch block of attempt i at time t: if (i < attempts - 1) { delay =
\* baseDelay * (i + 1); if (Date.now() + delay > deadline) break; sleep }
catch(t) ==
  IF bi < attempts - 1
    THEN IF t + baseDelay * (bi + 1) > deadline THEN "throw" ELSE "sleep"
    ELSE "throw"

\* try { await fn(); return } catch (err) { lastErr = err; tries += 1; ... }
\* fn takes some time and returns or throws
callFn ==
  /\ bpc = "call"
  /\ ncalled' = ncalled + 1
  /\ \E d \in 0..MaxFnSteps, ok \in BOOLEAN :
       /\ bnow' = bnow + d * baseDelay
       /\ IF ok
            THEN bpc' = "returned" /\ UNCHANGED <<lastErr, tries, bi>>
            ELSE /\ lastErr' = ncalled + 1
                 /\ tries' = tries + 1
                 /\ bpc' = catch(bnow')
                 /\ bi' = IF bpc' = "sleep" \/ bi < attempts - 1 THEN bi ELSE bi + 1
  /\ UNCHANGED <<deadline, sleeps, made>>
  /\ UNCHANGED <<scrapeVars, notBackoff>>

\* await new Promise(res => setTimeout(res, delay)), then i += 1
sleep ==
  /\ bpc = "sleep"
  /\ sleeps' = Append(sleeps, [at |-> bnow, ms |-> baseDelay * (bi + 1)])
  /\ bnow' = bnow + baseDelay * (bi + 1)
  /\ bi' = bi + 1
  /\ bpc' = "call"
  /\ UNCHANGED <<deadline, tries, lastErr, ncalled, made>>
  /\ UNCHANGED <<scrapeVars, notBackoff>>

\* const made = Math.max(tries, 1); throw new Error(`Failed after ${made}
\* attempt... Last error: ${lastErr}`)
throwFailed ==
  /\ bpc = "throw"
  /\ made' = Max(tries, 1)
  /\ bpc' = "thrown"
  /\ UNCHANGED <<deadline, bnow, bi, tries, lastErr, ncalled, sleeps>>
  /\ UNCHANGED <<scrapeVars, notBackoff>>

BackoffNext == callFn \/ sleep \/ throwFailed

\* ------------------------------------------------------------------------
\* The html of a message: cleanHtml in the scripted extraction, el.innerHTML
\* in the attached extraction.  An element is its list of child elements and,
\* for a shadow host, the list of the children of its shadow root; html is
\* the list of elements it serialises.
\* ------------------------------------------------------------------------

\* the most children of a matched element
MaxChildren == 2

\* the most children of a shadow root
MaxShadowChildren == 1

\* the child elements told apart by cleanHtml: tag, the attribute its
\* selectors look at, and data-start/data-end
ChildElements ==
  { [tag |-> "p", attr |-> "none", dataStart |-> FALSE],
    [tag |-> "p", attr |-> "none", dataStart |-> TRUE],
    [tag |-> "button", attr |-> "none", dataStart |-> FALSE],
    [tag |-> "span", attr |-> "data-testid=citation", dataStart |-> FALSE],
    [tag |-> "div", attr |-> "role=tooltip", dataStart |-> FALSE],
    [tag |-> "div", attr |-> "class=copy", dataStart |-> FALSE],
    [tag |-> "script", attr |-> "none", dataStart |-> FALSE] }

\* 'button, [data-testid*="citation"], [data-testid*="pill"], [class*="copy"],
\* [role="tooltip"], [aria-label="Copy"], [data-testid*="copy"],
\* [data-testid*="meta"]'
garbage(n) ==
  \/ n.tag = "button"
  \/ n.attr \in {"data-testid=citation", "data-testid=pill", "class=copy", "role=tooltip",
                 "aria-label=Copy", "data-testid=copy", "data-testid=meta"}

\* the matched elements
MessageElements ==
  { el \in [children : SeqsUpTo(ChildElements, MaxChildren),
            hasShadow : BOOLEAN,
            shadow : SeqsUpTo(ChildElements, MaxShadowChildren)] :
      ~el.hasShadow => el.shadow = <<>> }

\* cleanHtml over the element itself: what is removed is removed from el
cleanHtmlInPlace(el) ==
  LET kept == SelectSeq(el.children, LAMBDA n : ~garbage(n) /\ n.tag # "script")
      inner == [i \in 1..Len(kept) |-> [kept[i] EXCEPT !.dataStart = FALSE]]
  IN  [html |-> inner, el |-> [el EXCEPT !.children = inner]]

\* cleanHtml(el): clone, remove the garbage and the scripts, remove
\* data-start and data-end, return clone.innerHTML
cleanHtml(el) ==
  LET clone == el
      kept == SelectSeq(clone.children, LAMBDA n : ~garbage(n) /\ n.tag # "script")
      inner == [i \in 1..Len(kept) |-> [kept[i] EXCEPT !.dataStart = FALSE]]
  IN  [html |-> inner, el |-> el]

\* let html = (shadowHtml || cleanHtml(el) || ''), shadowHtml being
\* shadow.innerHTML for a shadow host
playwrightHtml(el) ==
  IF el.hasShadow /\ el.shadow # <<>>
    THEN [html |-> el.shadow, el |-> el]
    ELSE cleanHtml(el)

\* results.push({ role, content: el.innerHTML })
cdpHtml(el) == [html |-> el.children, el |-> el]

CleanIdle ==
  /\ kpc = "off" /\ kbackend = "none"
  /\ liveEl = [children |-> <<>>, hasShadow |-> FALSE, shadow |-> <<>>]
  /\ enteredEl = liveEl /\ handed = <<>>

CleanInit ==
  /\ kpc = "matched"
  /\ kbackend \in {"playwright", "cdp"}
  /\ liveEl \in MessageElements
  /\ enteredEl = liveEl
  /\ handed = <<>>

\* the element is extracted and its html reaches td.turndown
ExtractHtml ==
  /\ kpc = "matched"
  /\ LET r == IF kbackend = "cdp" THEN cdpHtml(liveEl) ELSE playwrightHtml(liveEl)
     IN  /\ handed' = r.html
         /\ liveEl' = r.el
  /\ kpc' = "done"
  /\ UNCHANGED <<kbackend, enteredEl>>
  /\ UNCHANGED <<scrapeVars, notClean>>

CleanNext == ExtractHtml

\* ------------------------------------------------------------------------
\* The role of a message of the scripted extraction, over elements with any
\* mix of role attributes, test id, class, streaming mark and text start.
\* An absent attribute is "none"; an attribute present without a value is "".
\* ------------------------------------------------------------------------

\* the elements role inference is run on
RoleElements ==
  [authorRole : {"none", "", "assistant", "model"},
   dataAuthor : {"none", "User"},
   dataRole   : {"none", "tool"},
   testid     : {"none", "user-message", "assistant-message"},
   cls        : {"", "bot user"},
   streaming  : BOOLEAN,
   anc        : {{"main"}, {"main", "[data-is-streaming]"}},
   textStart  : {"other", "chatgpt said", "you said"}]

RoleIdle ==
  /\ ipc = "off"
  /\ inode = [authorRole |-> "none", dataAuthor |-> "none", dataRole |-> "none",
              testid |-> "none", cls |-> "", streaming |-> FALSE, anc |-> {"main"},
              textStart |-> "other"]
  /\ irole = "none"

RoleInit ==
  /\ ipc = "collected"
  /\ inode \in RoleElements
  /\ irole = "none"

\* nodes.map(node => { ...; return { role, html: safeHtml } })
MapRole ==
  /\ ipc = "collected"
  /\ irole' = RoleOf(inode)
  /\ ipc' = "done"
  /\ UNCHANGED inode
  /\ UNCHANGED <<scrapeVars, notRole>>

RoleNext == MapRole

\* ------------------------------------------------------------------------
\* Two runs writing the same target name at once: each run goes through
\* uniquePath, one fs.existsSync at a time, and then through writeAtomic, one
\* file system call at a time, and the calls of the two runs interleave.
\* The candidate paths are 1 (the base name), 2, 3, ... (the _2, _3, ...
\* names); the fallback name of run p, which holds a random part, is 0 - p.
\* A file is 0 when absent, p when written by run p, OldFile when it was
\* there before.
\* ------------------------------------------------------------------------

Runs == {1, 2}

\* the values Date.now() can take while the two runs write
MaxStamps == 2

\* a file that was in the directory before the runs began
OldFile == Cardinality(Runs) + 1

RacePaths == {0 - p : p \in Runs} \cup (1..(MAX_ATTEMPTS - 1))

\* .<basename of the target>.tmp-<Date.now()>
TmpNames == RacePaths \X (1..MaxStamps)

RaceIdle ==
  /\ qpc = [p \in Runs |-> "off"]
  /\ qfs = [f \in RacePaths |-> 0]
  /\ qtmp = [t \in TmpNames |-> 0]
  /\ qidx = [p \in Runs |-> 1]
  /\ qtarget = [p \in Runs |-> 0]
  /\ qstamp = [p \in Runs |-> 1]

\* both runs are about to call uniquePath(basePath); some of the candidate
\* names are taken
RaceInit ==
  /\ qpc = [p \in Runs |-> "exists"]
  /\ \E taken \in SUBSET (1..(MAX_ATTEMPTS - 1)) :
       qfs = [f \in RacePaths |-> IF f \in taken THEN OldFile ELSE 0]
  /\ qtmp = [t \in TmpNames |-> 0]
  /\ qidx = [p \in Runs |-> 1]
  /\ qtarget = [p \in Runs |-> 0]
  /\ qstamp = [p \in Runs |-> 1]

\* one fs.existsSync of uniquePath: the candidate is free and is returned,
\* or the next candidate is tried, or the fallback name is returned
qExists(p) ==
  /\ qpc[p] = "exists"
  /\ IF qfs[qidx[p]] = 0
       THEN /\ qtarget' = [qtarget EXCEPT ![p] = qidx[p]]
            /\ qpc' = [qpc EXCEPT ![p] = "write"]
            /\ UNCHANGED qidx
       ELSE IF qidx[p] + 1 < MAX_ATTEMPTS
         THEN /\ qidx' = [qidx EXCEPT ![p] = qidx[p] + 1]
              /\ UNCHANGED <<qtarget, qpc>>
         ELSE /\ qtarget' = [qtarget EXCEPT ![p] = 0 - p]
              /\ qpc' = [qpc EXCEPT ![p] = "write"]
              /\ UNCHANGED qidx
  /\ UNCHANGED <<qfs, qtmp, qstamp>>
  /\ UNCHANGED <<scrapeVars, notRace>>

\* const tmp = ...tmp-${Date.now()}; fs.writeFileSync(tmp, content, 'utf8')
qWriteTmp(p) ==
  /\ qpc[p] = "write"
  /\ \E t \in 1..MaxStamps :
       /\ qstamp' = [qstamp EXCEPT ![p] = t]
       /\ qtmp' = [qtmp EXCEPT ![<<qtarget[p], t>>] = p]
  /\ qpc' = [qpc EXCEPT ![p] = "rename"]
  /\ UNCHANGED <<qfs, qidx, qtarget>>
  /\ UNCHANGED <<scrapeVars, notRace>>

\* fs.renameSync(tmp, target): the file of that name replaces the target; it
\* throws when the temporary file is gone
qRename(p) ==
  /\ qpc[p] = "rename"
  /\ LET name == <<qtarget[p], qstamp[p]>>
     IN  IF qtmp[name] = 0
           THEN /\ qpc' = [qpc EXCEPT ![p] = "failed"]
                /\ UNCHANGED <<qfs, qtmp>>
           ELSE /\ qfs' = [qfs EXCEPT ![qtarget[p]] = qtmp[name]]
                /\ qtmp' = [qtmp EXCEPT ![name] = 0]
                /\ qpc' = [qpc EXCEPT ![p] = "finally"]
  /\ UNCHANGED <<qidx, qtarget, qstamp>>
  /\ UNCHANGED <<scrapeVars, notRace>>

\* finally { if (fs.existsSync(tmp)) fs.unlinkSync(tmp) }
qFinally(p) ==
  /\ qpc[p] = "finally"
  /\ qtmp' = [qtmp EXCEPT ![<<qtarget[p], qstamp[p]>>] = 0]
  /\ qpc' = [qpc EXCEPT ![p] = "done"]
  /\ UNCHANGED <<qfs, qidx, qtarget, qstamp>>
  /\ UNCHANGED <<scrapeVars, notRace>>

RaceNext == \E p \in Runs : qExists(p) \/ qWriteTmp(p) \/ qRename(p) \/ qFinally(p)

\* ------------------------------------------------------------------------
\* The messages of a page in the scripted extraction.  The elements are
\* 1..MaxTurnNodes in document order, parent[i] is the element i lies in (0
\* for the document), sels[i] the selectors of selectorsFlat that match i.
\* Each element has a text of its own, named by its number; the html of an
\* element holds its own text and the texts of the elements inside it.
\* ------------------------------------------------------------------------

\* the most elements of a page
MaxTurnNodes == 3

\* the most selectors in selectorsFlat
MaxSelectors == 2

TurnElements == 1..MaxTurnNodes

\* the element and the elements it lies in
RECURSIVE Enclosing(_, _)
Enclosing(par, i) == IF i = 0 THEN {0} ELSE {i} \cup Enclosing(par, par[i])

\* the pages: numbering the elements in document order, an element lies in
\* the document, in the element before it or in one that element lies in
TurnDoms ==
  { t \in [parent : [TurnElements -> 0..(MaxTurnNodes - 1)],
           sels : [TurnElements -> SUBSET (1..MaxSelectors)]] :
      /\ t.parent[1] = 0
      /\ \A i \in TurnElements \ {1} : t.parent[i] \in Enclosing(t.parent, i - 1) }

\* root.querySelectorAll(sel) on the document: the elements that match, in
\* document order
querySelectorAllOf(t, sel) ==
  SelectSeq([i \in TurnElements |-> i], LAMBDA i : sel \in t.sels[i])

\* selectors.forEach(sel => root.querySelectorAll(sel).forEach(node =>
\* { if (!seen.has(node)) { seen.add(node); acc.push(node) } }))
collectSeen(t) ==
  LET F[k \in 0..MaxSelectors] ==
        IF k = 0 THEN <<>> ELSE PushUnseen(F[k - 1], querySelectorAllOf(t, k))
  IN  F[MaxSelectors]

\* el.innerHTML as texts: the text of the element and of all it holds, in
\* document order
innerTexts(t, el) ==
  SelectSeq([i \in TurnElements |-> i], LAMBDA i : el \in Enclosing(t.parent, i))

\* the texts of the messages, message after message
RECURSIVE emitTexts(_, _)
emitTexts(t, ns) ==
  IF ns = <<>> THEN <<>> ELSE innerTexts(t, Head(ns)) \o emitTexts(t, Tail(ns))

TurnIdle ==
  /\ upc = "off"
  /\ udom = [parent |-> [i \in TurnElements |-> 0], sels |-> [i \in TurnElements |-> {}]]
  /\ unodes = <<>> /\ umd = <<>>

TurnInit ==
  /\ upc = "page"
  /\ udom \in TurnDoms
  /\ unodes = <<>> /\ umd = <<>>

\* page.evaluate: collectDeep(document, selectorsFlat, nodes, new Set()),
\* nodes.map(...) to messages, and the messages pushed to lines
ExtractTurns ==
  /\ upc = "page"
  /\ unodes' = collectSeen(udom)
  /\ umd' = emitTexts(udom, unodes')
  /\ upc' = "done"
  /\ UNCHANGED udom
  /\ UNCHANGED <<scrapeVars, notTurn>>

TurnNext == ExtractTurns

\* ------------------------------------------------------------------------
\* parseArgs over the format flags, followed by the resolution of the
\* formats in main.  format is the constant 'both'.
\* ------------------------------------------------------------------------

\* the most arguments of a command line
MaxArgs == 3

\* the arguments told apart: the format flags and the share URL
ArgWords == {"--html-only", "--md-only", "--no-html", "url"}

ArgsIdle ==
  /\ apc = "off" /\ argv = <<>> /\ ai = 0
  /\ generateHtml = TRUE /\ htmlOnly = FALSE /\ mdOnly = FALSE /\ fmts = {}

\* let generateHtml = true; let htmlOnly = false; let mdOnly = false; i = 0
ArgsInit ==
  /\ apc = "parse"
  /\ argv \in SeqsUpTo(ArgWords, MaxArgs)
  /\ ai = 1
  /\ generateHtml = TRUE /\ htmlOnly = FALSE /\ mdOnly = FALSE /\ fmts = {}

\* one turn of the loop over args: the switch on the argument
parseArg ==
  /\ apc = "parse"
  /\ IF ai > Len(argv)
       THEN apc' = "check" /\ UNCHANGED <<ai, generateHtml, htmlOnly, mdOnly>>
       ELSE /\ ai' = ai + 1
            /\ apc' = "parse"
            /\ CASE argv[ai] = "--no-html" ->
                      generateHtml' = FALSE /\ UNCHANGED <<htmlOnly, mdOnly>>
                 [] argv[ai] = "--html-only" ->
                      htmlOnly' = TRUE /\ generateHtml' = TRUE /\ mdOnly' = FALSE
                 [] argv[ai] = "--md-only" ->
                      mdOnly' = TRUE /\ generateHtml' = FALSE /\ UNCHANGED htmlOnly
                 [] OTHER -> UNCHANGED <<generateHtml, htmlOnly, mdOnly>>
  /\ UNCHANGED <<argv, fmts>>
  /\ UNCHANGED <<scrapeVars, notArgs>>

\* if (htmlOnly && mdOnly) throw; if (htmlOnly && !generateHtml) throw
checkConflicts ==
  /\ apc = "check"
  /\ apc' = IF (htmlOnly /\ mdOnly) \/ (htmlOnly /\ ~generateHtml) THEN "thrown" ELSE "main"
  /\ UNCHANGED <<argv, ai, generateHtml, htmlOnly, mdOnly, fmts>>
  /\ UNCHANGED <<scrapeVars, notArgs>>

\* const produceMd = format !== 'html' && !htmlOnly; const produceHtml =
\* format !== 'md' && generateHtml && !mdOnly; neither: fail, process.exit(1)
resolveFormats ==
  /\ apc = "main"
  /\ fmts' = {f \in {"md"} : ~htmlOnly} \cup {f \in {"html"} : generateHtml /\ ~mdOnly}
  /\ apc' = IF fmts' = {} THEN "failed" ELSE "resolved"
  /\ UNCHANGED <<argv, ai, generateHtml, htmlOnly, mdOnly>>
  /\ UNCHANGED <<scrapeVars, notArgs>>

ArgsNext == parseArg \/ checkConflicts \/ resolveFormats

\* ------------------------------------------------------------------------
\* The Markdown assembly of the two backends on the same page.  A title is a
\* sequence of words; the html of a message is named by its kind, and
\* Turndown, the same in both backends, gives its lines.
\* ------------------------------------------------------------------------

\* the most messages of a page
MaxMessages == 2

Backends == {"scripted", "attached"}

\* the html of a message: a paragraph, or a block with a line that reads
\* 'text' (the language label of a code block header)
HtmlKinds == {"p", "labelled"}

\* td.turndown(html), as lines
turndownLines(h) == IF h = "p" THEN <<"a">> ELSE <<"text", "a">>

EquivTitles == {<<"ChatGPT", "-", "txt">>, <<"txt">>, <<"txt", "|", "Claude">>, <<>>}

EquivInputs ==
  [provider : {"chatgpt", "claude"},
   title : EquivTitles,
   messages : SeqsUpTo([role : MessageRole \ {"tool"}, html : HtmlKinds], MaxMessages)
                \ {<<>>}]

\* const headingPrefix = provider === 'gemini' ? 'Gemini' : ... : 'ChatGPT'
headingPrefix(prov) ==
  CASE prov = "gemini" -> "Gemini"
    [] prov = "grok" -> "Grok"
    [] prov = "claude" -> "Claude"
    [] OTHER -> "ChatGPT"

\* `# ${headingPrefix} Conversation: ${titleWithoutPrefix}`
headingLine(prov, t) ==
  <<"#", headingPrefix(prov), "Conversation:">> \o stripProviderPrefix(t)

\* scripted: prettyRole
prettyRole(role) ==
  CASE role = "assistant" -> "Assistant"
    [] role = "user" -> "User"
    [] role = "system" -> "System"
    [] role = "tool" -> "Tool"
    [] OTHER -> "Other"

\* attached: roleLabel
cdpRoleLabel(role) ==
  CASE role = "user" -> "User"
    [] role = "assistant" -> "Assistant"
    [] OTHER -> "Message"

\* scripted: markdown.split('\n').filter(line => line.trim() !== 'text')
scriptedBody(h) == SelectSeq(turndownLines(h), LAMBDA l : l # "text")

\* attached: the result of td.turndown, trimmed
cdpBody(h) == turndownLines(h)

\* `${provider.charAt(0).toUpperCase() + provider.slice(1)} Conversation`
defaultTitle(prov) == <<IF prov = "claude" THEN "Claude" ELSE "Chatgpt", "Conversation">>

\* attached: const pageTitle = await puppeteerPage.title() || default
cdpPageTitle(prov, t) == IF t = <<>> THEN defaultTitle(prov) ELSE t

\* pageTitle.replace(/\s*[-|].*$/, ''): the words before the first - or |
RECURSIVE beforeDash(_)
beforeDash(t) ==
  IF t = <<>> \/ Head(t) \in {"-", "|"} THEN <<>> ELSE <<Head(t)>> \o beforeDash(Tail(t))

\* attached: title: pageTitle.replace(...).trim() || default
cdpTitle(prov, t) ==
  IF beforeDash(cdpPageTitle(prov, t)) = <<>> THEN defaultTitle(prov)
  ELSE beforeDash(cdpPageTitle(prov, t))

NoOutput == [heading |-> <<>>, roles |-> <<>>, bodies |-> <<>>, title |-> <<>>]

EquivIdle ==
  /\ epc = {"off"}
  /\ einput = [provider |-> "chatgpt", title |-> <<>>, messages |-> <<>>]
  /\ eout = [b \in Backends |-> NoOutput]

EquivInit ==
  /\ epc = {}
  /\ einput \in EquivInputs
  /\ eout = [b \in Backends |-> NoOutput]

\* the scripted assembly: heading, '## prettyRole' and the cleaned Markdown
\* of each message; return { title, markdown, retrievedAt }
assembleScripted ==
  /\ "off" \notin epc /\ "scripted" \notin epc
  /\ eout' = [eout EXCEPT !["scripted"] =
       [heading |-> headingLine(einput.provider, einput.title),
        roles |-> [k \in 1..Len(einput.messages) |-> prettyRole(einput.messages[k].role)],
        bodies |-> [k \in 1..Len(einput.messages) |-> scriptedBody(einput.messages[k].html)],
        title |-> einput.title]]
  /\ epc' = epc \cup {"scripted"}
  /\ UNCHANGED einput
  /\ UNCHANGED <<scrapeVars, notEquiv>>

\* the attached assembly: heading, '## roleLabel' and the Markdown of each
\* message; return { title: pageTitle.replace(...), markdown, retrievedAt }
assembleAttached ==
  /\ "off" \notin epc /\ "attached" \notin epc
  /\ eout' = [eout EXCEPT !["attached"] =
       [heading |-> headingLine(einput.provider, cdpPageTitle(einput.provider, einput.title)),
        roles |-> [k \in 1..Len(einput.messages) |-> cdpRoleLabel(einput.messages[k].role)],
        bodies |-> [k \in 1..Len(einput.messages) |-> cdpBody(einput.messages[k].html)],
        title |-> cdpTitle(einput.provider, einput.title)]]
  /\ epc' = epc \cup {"attached"}
  /\ UNCHANGED einput
  /\ UNCHANGED <<scrapeVars, notEquiv>>

EquivNext == assembleScripted \/ assembleAttached

\* ------------------------------------------------------------------------
\* Properties of scrape
\* ------------------------------------------------------------------------
Roles(msgs) == [k \in 1..Len(msgs) |-> msgs[k].role]

\* C1: the messages scrape returns are in document order: a message that
\* comes earlier in the result comes from an element earlier in the document.
C1_DocumentOrder ==
  outcome = "returned" =>
    \A j, k \in 1..Len(messages) : j < k => messages[j].html < messages[k].html

\* C2: no message of a result scrape returns (and converts to Markdown) has
\* role unknown, for every provider and backend.
C2_NoUnknownRole ==
  outcome = "returned" => \A k \in 1..Len(messages) : messages[k].role # "unknown"

\* C3: where the alternating fallback runs, the k-th unknown message (k from 0,
\* counted over unknown messages only) becomes user for even k and assistant
\* for odd k; resolved messages, every html and every position are unchanged;
\* roles [unknown, assistant, unknown] become [user, assistant, assistant].
C3_AlternatingFallback ==
  provider \in FallbackProviders =>
    /\ Len(messages) = Len(raw)
    /\ \A k \in 1..Len(raw) :
         /\ messages[k].html = raw[k].html
         /\ raw[k].role # "unknown" => messages[k].role = raw[k].role
         /\ raw[k].role = "unknown" =>
              messages[k].role =
                IF Cardinality({j \in 1..(k - 1) : raw[j].role = "unknown"}) % 2 = 0
                THEN "user" ELSE "assistant"
    /\ Roles(raw) = <<"unknown", "assistant", "unknown">> =>
         Roles(messages) = <<"user", "assistant", "assistant">>

\* C3 witness: the fallback has run on roles [unknown, assistant, unknown].
C3_Witness ==
  /\ provider = "chatgpt"
  /\ pc = "pw_finish"
  /\ Roles(raw) = <<"unknown", "assistant", "unknown">>
  /\ Roles(messages) = <<"user", "assistant", "assistant">>

\* C4: at most one automation session is open at any time.
C4_OneSessionLive == Cardinality(live) <= 1

\* C5: when scrape has returned or thrown, no session it opened is open.
C5_ReleasedOnExit == pc = "done" => live = {}

\* C10: scrape returns a result only when at least one message was extracted.
C10_NonEmptyResult == outcome = "returned" => Len(messages) > 0

\* the candidate groups of the provider with an element of the page
GroupsWithMatch ==
  {g \in 1..Len(PROVIDER_SELECTOR_CANDIDATES[provider]) :
     \E k \in 1..Len(dom) :
       MatchesAny(PROVIDER_SELECTOR_CANDIDATES[provider][g], Shape[dom[k]])}

\* C12: without an override, the scripted path goes on with the lowest-index
\* candidate group that has a matching element on the page, and reports
\* not-found only when no group of the catalog has one.
C12_LowestGroup ==
  waitForSelector = NoSelector =>
    /\ pc = "pw_wait" =>
         \E g \in GroupsWithMatch :
           /\ \A h \in GroupsWithMatch : g <= h
           /\ selector = PROVIDER_SELECTOR_CANDIDATES[provider][g]
    /\ err \in {"no-selector", "headless-blocked"} => GroupsWithMatch = {}

\* a ChatGPT page with only an <article> in <main>: the first two groups do
\* not match, the third and the fourth do, the third is returned
C12_Witness ==
  /\ provider = "chatgpt" /\ waitForSelector = NoSelector
  /\ pc = "pw_wait"
  /\ dom = <<"artEmpty">>
  /\ GroupsWithMatch = {3, 4}
  /\ selector = <<"main article">>

\* C13: with an override selector the scrape waits for and collects with the
\* override alone, in the scripted and in the attached backend.
C13_OverrideUsed ==
  (waitForSelector # NoSelector /\ pc \in {"pw_wait", "pw_finish", "cdp_extract", "cdp_finish"})
    => selector = waitForSelector

\* the headless stage ended blocked: the challenge loop is over, the page
\* was never clear and the browser is headless
BlockedHeadless == pc = "pw_headful" /\ ~challengeClear /\ currentHeadless

HeadfulSessions == {"b2", "c2"}

\* C14 as stated: from the blocked headless stage the next step opens the
\* headful session with the headless one closed, the step after that
\* navigates and enters the challenge check again, and a headful session is
\* opened only from a headless stage.
C14_HeadfulNext ==
  [][ /\ BlockedHeadless =>
           (pc' = "pw_goto2" /\ ~currentHeadless' /\ live' \in {{"b2"}, {"c2"}})
      /\ (pc = "pw_goto2" /\ ~useCdp) => (pc' = "pw_challenge2" /\ chk' = 0)
      /\ pc' = "pw_goto2" => (BlockedHeadless /\ ~currentHeadless') ]_vars

\* C14 amended: the same, except that the headful launch or the headful
\* navigation may itself throw; the error then goes to the handler of
\* scripted setup errors, with the headless session closed all the same.
C14_HeadfulNextOrThrow ==
  [][ /\ BlockedHeadless =>
           /\ ~currentHeadless'
           /\ \/ pc' = "pw_goto2" /\ live' \in {{"b2"}, {"c2"}}
              \/ pc' = "pw_catch" /\ live' = {}
      /\ pc = "pw_goto2" => \/ pc' = "pw_challenge2" /\ chk' = 0
                            \/ pc' = "pw_catch"
      /\ pc' = "pw_goto2" => (BlockedHeadless /\ ~currentHeadless')
      /\ pc \in {"pw_headful", "pw_goto2"} =>
           (useCdp' = useCdp /\ outcome' = "none" /\ live' \cap {"pp"} = {}) ]_vars

\* the headful challenge check is running after a blocked headless stage
C14_Witness ==
  /\ headless /\ ~currentHeadless
  /\ pc = "pw_challenge2"
  /\ live \in {{"b2"}, {"c2"}}
  /\ ~useCdp

\* C15: a scripted setup or navigation error with a blocking signature,
\* raised while headless, takes scrape to the scripted headful stage, not to
\* the attached backend and not to failure.
C15_BlockingErrorToHeadful ==
  [][ (pc = "pw_catch" /\ err = "blocking" /\ currentHeadless) =>
        (pc' = "pw_goto2" /\ ~currentHeadless' /\ ~useCdp' /\ outcome' = "none") ]_vars

AttachedFromStart == cdpEndpoint \/ provider = "claude"

\* the scripted session is observed blocked in this step: the challenge
\* never cleared, a blocking setup error was caught, or discovery found no
\* selector group
ObservedBlocked ==
  \/ pc = "pw_gate" /\ ~challengeClear
  \/ pc = "pw_catch" /\ err = "blocking"
  \/ pc = "pw_select" /\ selector' = NoSelector /\ provider = "chatgpt"

StructuralErrors ==
  {"challenge", "headless-blocked", "no-selector", "cdp-challenge", "cdp-no-content"}

\* C17: a run that starts on the scripted backend surfaces a failure for a
\* structural problem (challenge blocked, no selector group matching) only
\* after the headful stage has been tried and, on darwin, the attached stage
\* too; and that failure carries a hint.
C17_LadderExhausted ==
  (outcome = "thrown" /\ err \in StructuralErrors /\ ~AttachedFromStart) =>
    /\ ~currentHeadless
    /\ platform = "darwin" => useCdp
    /\ hint

RealConversation(t, b) ==
  /\ b.length > MaxChallengeBody
  /\ ~isChallengeTitle(t)
  /\ \A k \in 1..Len(t) : foldCase(t[k]) \notin CdpTitleSignatures

\* C19: whenever a challenge check of either backend reads a real
\* conversation page whose body text is longer than 2000 characters, it
\* classifies the page as clear, whatever challenge words the text holds.
C19_BodyLengthGuard ==
  [][ RealConversation(titleText', bodyText') =>
        /\ (pc \in {"pw_challenge", "pw_challenge2"} /\ chk < ChallengeChecks) =>
             challengeClear'
        /\ (pc \in {"cdp_page", "cdp_prompt"} /\ locals' # locals) =>
             pc' = "cdp_select" ]_vars

ChallengeLoops == {"pw_challenge", "pw_challenge2"}

\* C20: a scripted challenge loop makes at most 5 checks; at the first check
\* where neither the title nor the body heuristic matches it sets
\* challengeClear and leaves the loop; otherwise it counts the check and
\* stays; after 5 matching checks it leaves with challengeClear false.
C20_ChallengeLoop ==
  [][ (pc \in ChallengeLoops) =>
        /\ chk <= ChallengeChecks
        /\ chk < ChallengeChecks =>
             (IF ~isChallengeTitle(titleText') /\ ~isChallengeBody(bodyText')
              THEN (challengeClear' /\ pc' \notin ChallengeLoops /\ chk' = chk)
              ELSE (chk' = chk + 1 /\ pc' = pc /\ challengeClear' = challengeClear))
        /\ chk = ChallengeChecks =>
             (pc' \notin ChallengeLoops /\ ~challengeClear' /\ chk' = chk)
        /\ pc' \notin ChallengeLoops => (challengeClear' <=> (chk < ChallengeChecks))
    ]_vars

\* the headless loop declared the page clear at its third check, on a long
\* body text that holds a challenge phrase
C20_Witness ==
  /\ pc = "pw_headful"
  /\ challengeClear
  /\ chk = 2
  /\ bodyText.length > MaxChallengeBody
  /\ "Verify you are human" \in bodyText.phrases

\* C32: in each scripted challenge loop every wait, the last one included,
\* is followed by a check of title and body before the loop is left with the
\* page declared blocked; and the waits of a loop are increasing.
C32_RecheckAfterEachWait ==
  [][ (pc \in ChallengeLoops) =>
        /\ (pc' \notin ChallengeLoops /\ ~challengeClear') => pendingWait = 0
        /\ (pc' = pc /\ pendingWait # 0) => pendingWait' > pendingWait ]_vars

\* the positions of scrape in the order one iteration of its loop goes
\* through them
PcOrder ==
  <<"start", "loop", "pw_launch", "pw_goto", "pw_challenge", "pw_headful", "pw_goto2",
    "pw_challenge2", "pw_gate", "pw_catch", "pw_select", "pw_wait", "pw_finish",
    "cdp_connect", "cdp_page", "cdp_prompt", "cdp_select", "cdp_extract", "cdp_finish",
    "finally", "done">>

Pos(p) == CHOOSE i \in 1..Len(PcOrder) : PcOrder[i] = p

\* what is left of a scrape at most: the iterations left, then the positions
\* left in the iteration, then the challenge checks left in the loop
Rank ==
  (2 - attempt) * (Len(PcOrder) + 1) * (ChallengeChecks + 1)
    + (Len(PcOrder) - Pos(pc)) * (ChallengeChecks + 1)
    + (ChallengeChecks - chk)

\* C37: every step of scrape brings its end nearer, so the escalation loop
\* ends, and it ends by return or throw within 2 iterations; once attached
\* the scrape stays attached, so the fallback is triggered at most once;
\* once headful it stays headful; and the throw of 'Unexpected state: scraping
\* loop exited without result' is never reached.
C37_EscalationTerminates ==
  [][ /\ Rank' < Rank /\ Rank' >= 0
      /\ attempt' \in {attempt, attempt + 1}
      /\ pc' \in {"loop", "finally", "done"} \/ attempt' <= 1
      /\ (pc # "start" /\ useCdp) => (useCdp' /\ pc' \notin {"pw_launch", "pw_goto", "pw_select"})
      /\ (pc # "start" /\ useCdp' # useCdp) => (attempt = 0 /\ attempt' = 1)
      /\ (pc # "start" /\ ~currentHeadless) => ~currentHeadless'
      /\ err' # "unexpected" ]_vars

\* a scrape that began scripted fell back once and returned from the second
\* iteration, attached
C37_Witness ==
  /\ pc = "done" /\ outcome = "returned"
  /\ attempt = 1 /\ useCdp /\ ~cdpEndpoint /\ provider # "claude"

\* C26: in the scripted path every extracted message is an element matched
\* by the selector group that discovery settled on.
C26_ConfirmedGroupOnly ==
  pc = "pw_finish" =>
    \A k \in 1..Len(raw) :
      \E j \in 1..Len(QuerySelectorAll(dom, selector)) :
        QuerySelectorAll(dom, selector)[j] = raw[k].html

\* ------------------------------------------------------------------------
\* Properties of renderHtmlDocument
\* ------------------------------------------------------------------------
ExecWords == ScriptWords \cup StyleWords

CountIn(ts, words) == Cardinality({k \in 1..Len(ts) : ts[k] \in words})

\* position i of ts lies inside a tag: after a "<" with no ">" in between
InTag(ts, i) ==
  \E j \in 1..(i - 1) : ts[j] = "<" /\ \A k \in (j + 1)..(i - 1) : ts[k] # ">"

\* C6: the returned document has no "<" directly followed by the word
\* script, in either case, anywhere (title, source, date, contents list and
\* body); in the body no "<" is directly followed by script or style, and
\* the body keeps every script and style word of the Markdown, so the tags
\* are shown as text and not removed.
C6_ScriptFree ==
  rpc = "rendered" =>
    /\ \A i \in 1..(Len(html) - 1) : ~(html[i] = "<" /\ html[i + 1] \in ScriptWords)
    /\ \A i \in 1..(Len(body) - 1) : ~(body[i] = "<" /\ body[i + 1] \in ExecWords)
    /\ CountIn(body, ExecWords) = CountIn(markdown, ExecWords)

\* a Markdown holding <SCRIPT> has been rendered to the visible text
\* &lt;script&gt;
C6_Witness ==
  /\ rpc = "rendered"
  /\ markdown = <<"<", "SCRIPT", ">">>
  /\ body = <<"<p>", "&lt;", "script", "&gt;", "</p>">>

\* C7: the rendered body has no event-handler attribute and no address of an
\* external resource inside a tag.
C7_NoHandlerNoExternal ==
  rpc = "rendered" =>
    \A i \in 1..Len(body) :
      body[i] \in {"onerror=x", "src=http"} => ~InTag(body, i)

\* ------------------------------------------------------------------------
\* Properties of the conversion to Markdown
\* ------------------------------------------------------------------------
RECURSIVE LeadTicks(_)
LeadTicks(ts) == IF ts # <<>> /\ Head(ts) = Tick THEN 1 + LeadTicks(Tail(ts)) ELSE 0

RECURSIVE TrailTicks(_)
TrailTicks(ts) ==
  IF ts # <<>> /\ ts[Len(ts)] = Tick
  THEN 1 + TrailTicks(SubSeq(ts, 1, Len(ts) - 1)) ELSE 0

\* what stands between the opening fence and the end of its line
RECURSIVE UpToNewline(_)
UpToNewline(ts) ==
  IF ts = <<>> \/ Head(ts) = "\n" THEN <<>> ELSE <<Head(ts)>> \o UpToNewline(Tail(ts))

InfoString(md) == UpToNewline(SubSeq(md, LeadTicks(md) + 1, Len(md)))

\* the language named by the class of the code element
LanguageOf(cls) ==
  CASE cls = "language-python" -> <<"python">>
    [] cls = "language-c++" -> <<"c++">>
    [] OTHER -> <<>>

\* the number of non-overlapping occurrences of three backticks, counted
\* from the left
RECURSIVE TripleCount(_)
TripleCount(ts) ==
  IF Len(ts) < 3 THEN 0
  ELSE IF ts[1] = Tick /\ ts[2] = Tick /\ ts[3] = Tick
       THEN 1 + TripleCount(SubSeq(ts, 4, Len(ts)))
       ELSE TripleCount(Tail(ts))

\* the groups of three backticks inside a code text: the sum of r \div 3 over
\* its runs of backticks
RECURSIVE SumThirds(_)
SumThirds(runs) ==
  IF runs = {} THEN 0
  ELSE LET r == CHOOSE x \in runs : TRUE IN (r[2] \div 3) + SumThirds(runs \ {r})

RECURSIVE InnerTriples(_)
InnerTriples(c) ==
  IF c = <<>> THEN 0 ELSE SumThirds(TickRuns(Head(c).text)) + InnerTriples(Tail(c))

\* C8: every code element turned into a fenced block opens and closes with
\* fences of the same length L = max(3, longest run of backticks of its text
\* + 1), and when the code element has class language-X the opening fence
\* carries X as its info string.
C8_FenceSafety ==
  \A k \in 1..Len(mds) :
    mds[k].rule # "code" =>
      LET L == Max(3, maxTicks(conv[k].text) + 1)
      IN /\ LeadTicks(mds[k].md) = L
         /\ TrailTicks(mds[k].md) = L
         /\ \A r \in TickRuns(conv[k].text) : r[2] < L
         /\ conv[k].cls # "" => InfoString(mds[k].md) = LanguageOf(conv[k].cls)

NewlineRun3(ts) ==
  \E k \in 1..(Len(ts) - 2) : ts[k] = "\n" /\ ts[k + 1] = "\n" /\ ts[k + 2] = "\n"

\* C23: the Markdown returned has no run of three or more newlines and no
\* white space at its start or its end.
C23_CollapsedAndTrimmed ==
  tpc = "done" => (~NewlineRun3(tmd) /\ trim(tmd) = tmd)

Separators == {"U+2028", "U+2029"}

\* C24: the Markdown returned, in both backends, holds no U+2028 and no
\* U+2029: it is the joined lines with each of them replaced by a newline.
C24_NoSeparators ==
  tpc = "done" =>
    /\ \A k \in 1..Len(tmd) : tmd[k] \notin Separators
    /\ Len(tmd) = Len(Join(lines))
    /\ \A k \in 1..Len(tmd) :
         tmd[k] = IF Join(lines)[k] \in Separators THEN "\n" ELSE Join(lines)[k]

\* an attached run whose title, URL and second message hold separators
C24_Witness ==
  /\ tpc = "done"
  /\ backend = "attached"
  /\ \E k \in 1..Len(docTitle) : docTitle[k] = "U+2028"
  /\ \E k \in 1..Len(shareUrl) : shareUrl[k] = "U+2029"
  /\ Len(conv) = 2
  /\ \E k \in 1..Len(conv[2].text) : conv[2].text[k] = "U+2029"
  /\ \E k \in 1..Len(Join(lines)) : Join(lines)[k] = "U+2029"

\* ------------------------------------------------------------------------
\* Properties of the heading ids
\* ------------------------------------------------------------------------
\* C21: a call of renderHtmlDocument on the Markdown of the first call
\* returns what the first call returned, whatever calls were made in between.
C21_Idempotent ==
  (hpc = "returned" /\ hdoc = first.doc) => hout = first.out

\* the third call, after a second one on another document, renders the first
\* document again, with a repeated heading in it
C21_Witness ==
  /\ hpc = "returned"
  /\ ncalls = 3
  /\ hdoc = first.doc
  /\ hdoc = << <<"txt">>, <<"txt">> >>
  /\ headings[2].id = <<"#txt", "-", "1">>
  /\ hout = first.out

\* C22: the ids heading_open has assigned within one document are pairwise
\* distinct.
C22_DistinctIds ==
  \A i, j \in 1..Len(headings) : headings[i].id = headings[j].id => i = j

\* ------------------------------------------------------------------------
\* Properties of the output files
\* ------------------------------------------------------------------------
\* C28: the path main settles on does not exist; it is the outfile when that
\* does not exist, else the _k name with the smallest free k from 2 on, else
\* the randomised name, else the run fails; and no step of any run changes
\* the content at a path that exists.
C28_NoClobber ==
  [][ /\ (fpc = "resolve" /\ fpc' = "write") =>
           /\ ~existsSync(fs, target')
           /\ target'[2] = kind
           /\ ~existsSync(fs, <<1, kind>>) => target'[1] = 1
           /\ target'[1] >= 2 =>
                \A j \in 1..(target'[1] - 1) : existsSync(fs, <<j, kind>>)
           /\ target'[1] = 0 =>
                \A j \in 1..(MAX_ATTEMPTS - 1) : existsSync(fs, <<j, kind>>)
      /\ (fpc = "resolve" /\ fpc' = "failed") =>
           \A j \in 0..(MAX_ATTEMPTS - 1) : existsSync(fs, <<j, kind>>)
      /\ \A p \in OutPaths : existsSync(fs, p) => fs'[p] = fs[p] ]_vars

\* the second run found name.md and name_2.md taken and wrote name_3.md
C28_Witness ==
  /\ fpc = "done"
  /\ run = 2
  /\ written["md"] = <<3, "md">>
  /\ fs[<<1, "md">>] = Full(0)
  /\ fs[<<2, "md">>] = Full(1)
  /\ fs[<<3, "md">>] = Full(2)

\* C29: when a run has written both formats, the two paths differ only in
\* their extension.
C29_SharedBaseName ==
  (fpc = "done" /\ produceMd /\ produceHtml) => written["md"][1] = written["html"][1]

\* C30: no target path ever holds a partial write, and when writeAtomic
\* returns or throws its temporary file does not exist.
C30_AtomicAndClean ==
  [][ /\ \A p \in OutPaths : fs'[p].st # "partial"
      /\ fpc = "finally" /\ fpc' # "killed" => tmp' = "absent" ]_vars

\* C30 amended: no target path ever holds a partial write: a step leaves the
\* content at a path as it was or puts the run's full content there; and
\* when writeAtomic returns or throws its temporary file does not exist,
\* unless fs.unlinkSync threw.
C30_AtomicCleanUnlessUnlinkFails ==
  [][ /\ \A p \in OutPaths : fs'[p].st # "partial" /\ fs'[p] \in {fs[p], Full(run)}
      /\ fpc = "finally" /\ fpc' # "killed" => (tmp' = "absent" \/ unlinkFailed') ]_vars

\* a write that failed half way: the partial temporary file was removed,
\* writeAtomic threw, and the target is absent
C30_Witness ==
  /\ fpc = "failed"
  /\ werr
  /\ target = <<2, "md">>
  /\ fs[target] = Absent
  /\ fs[<<1, "md">>] = Full(0)
  /\ tmp = "absent"
  /\ ~unlinkFailed

\* ------------------------------------------------------------------------
\* Properties of the waits
\* ------------------------------------------------------------------------
\* C27: every stage's wait has a bound, and the bound is no larger than
\* timeoutMs.
C27_WaitsWithinBudget ==
  wpc \notin {"off", "start"} => (bounded /\ bound <= timeoutMs)

\* ------------------------------------------------------------------------
\* Properties of collectDeep
\* ------------------------------------------------------------------------
\* i lies inside a shadow root: an edge on its path to the document is one
RECURSIVE InShadow(_, _)
InShadow(t, i) ==
  IF i = 0 THEN FALSE
  ELSE t.edge[i] = "shadow" \/ InShadow(t, t.parent[i])

\* C25: collectDeep collects every matching element that lies inside a
\* shadow root, at any depth of the host and of the nesting of shadow roots.
C25_ShadowCollected ==
  cpc = "done" =>
    \A i \in Elements : (tree.match[i] /\ InShadow(tree, i)) => i \in collected

\* ------------------------------------------------------------------------
\* Properties of detectProvider
\* ------------------------------------------------------------------------
LowerHost == [k \in 1..Len(url.hostname) |-> toLowerCase(url.hostname[k])]

MatchingEntries ==
  IF url.parses
  THEN {i \in 1..Len(PROVIDER_PATTERNS) : entryMatches(PROVIDER_PATTERNS[i], LowerHost)}
  ELSE {}

\* C11: detectProvider always returns a provider, never an error: the id of
\* the lowest-index entry of PROVIDER_PATTERNS with a pattern matching the
\* lower-cased hostname, and chatgpt when the URL does not parse or no entry
\* matches.
C11_DetectProviderTotal ==
  dpc = "returned" =>
    /\ detected \in Provider
    /\ [k \in 1..Len(PROVIDER_PATTERNS) |-> PROVIDER_PATTERNS[k].id]
         = <<"gemini", "grok", "claude", "chatgpt">>
    /\ IF MatchingEntries = {} THEN detected = "chatgpt"
       ELSE \E i \in MatchingEntries :
              /\ \A j \in MatchingEntries : i <= j
              /\ detected = PROVIDER_PATTERNS[i].id

\* a string that is not a URL has been given and chatgpt returned
C11_Witness == dpc = "returned" /\ ~url.parses /\ detected = "chatgpt"

\* ------------------------------------------------------------------------
\* Properties of the publish block of main
\* ------------------------------------------------------------------------

\* confirmPublish let the run through: by the flag, or by the answer typed
\* on an interactive terminal
ConfirmedBy(a) == yes \/ (isTTY /\ answer = a)

\* C31 as stated: publishToGhPages is called only after confirmPublish
\* returned, and confirmPublish returns only when --yes/--no-confirm was
\* given or the line typed on an interactive terminal is exactly PROCEED;
\* otherwise the run fails and nothing is pushed.
C31_ExactlyProceed ==
  /\ called => confirmed
  /\ confirmed => ConfirmedBy(PROCEED)
  /\ (shouldPublish /\ ppc \in {"done", "failed"} /\ ~ConfirmedBy(PROCEED)) =>
       (ppc = "failed" /\ ~called /\ ~copied /\ ~committed /\ ~pushed)

\* C31 amended: publishToGhPages is called only after confirmPublish
\* returned, and confirmPublish returns only when --yes/--no-confirm was
\* given or the line typed on an interactive terminal is PROCEED once its
\* leading and trailing white space is removed; otherwise the run fails and
\* nothing is pushed.
C31_TrimmedProceed ==
  /\ called => confirmed
  /\ confirmed => (yes \/ (isTTY /\ trim(answer) = PROCEED))
  /\ (shouldPublish /\ ppc \in {"done", "failed"}
        /\ ~(yes \/ (isTTY /\ trim(answer) = PROCEED))) =>
       (ppc = "failed" /\ ~called /\ ~copied /\ ~committed /\ ~pushed)

\* a run without the flag published after PROCEED was typed
C31_Witness ==
  ppc = "done" /\ ~yes /\ isTTY /\ trim(answer) = PROCEED /\ called /\ copied
  /\ committed /\ pushed

\* ------------------------------------------------------------------------
\* Properties of attemptWithBackoff
\* ------------------------------------------------------------------------

\* C33: attemptWithBackoff calls fn at least once and at most 3 times and
\* returns right after the first call that succeeds; it sleeps 500*(i+1) ms
\* between attempts only, never after the last one, and only when the sleep
\* ends within the deadline; it gives up as soon as the next sleep would pass
\* the deadline; the error it throws states the attempts made and the last
\* error.
C33_BoundedBackoff ==
  /\ ncalled <= attempts
  /\ Len(sleeps) <= ncalled
  /\ \A k \in 1..Len(sleeps) :
       sleeps[k].ms = 500 * k /\ sleeps[k].at + sleeps[k].ms <= deadline
  /\ bpc = "returned" =>
       (ncalled >= 1 /\ tries = ncalled - 1 /\ Len(sleeps) = ncalled - 1 /\ made = 0)
  /\ bpc = "thrown" =>
       /\ ncalled >= 1 /\ Len(sleeps) = ncalled - 1
       /\ ncalled < attempts => bnow + 500 * ncalled > deadline
       /\ made = ncalled /\ lastErr = ncalled

\* fn failed twice within the deadline and succeeded at the third call
C33_Witness ==
  bpc = "returned" /\ ncalled = 3 /\ Len(sleeps) = 2

\* ------------------------------------------------------------------------
\* Properties of the html of a message
\* ------------------------------------------------------------------------

\* C34: the html handed to the Markdown converter holds no button, no
\* citation, tooltip or copy-button element and no data-start/data-end
\* attribute, in both backends and for shadow hosts, and the live element is
\* as it was before the extraction.
C34_HandedHtmlClean ==
  kpc = "done" =>
    /\ \A i \in 1..Len(handed) :
         /\ handed[i].tag # "button"
         /\ handed[i].attr \notin {"data-testid=citation", "role=tooltip", "class=copy"}
         /\ ~handed[i].dataStart
    /\ liveEl = enteredEl

\* ------------------------------------------------------------------------
\* Properties of role inference
\* ------------------------------------------------------------------------

\* the values of data-message-author-role, data-author and data-role that
\* are present and not empty, in that order
ExplicitRoles(n) ==
  SelectSeq(<<n.authorRole, n.dataAuthor, n.dataRole>>, LAMBDA v : v \notin {"none", ""})

\* the role an attribute value stands for
RoleNamed(v) ==
  CASE v \in {"assistant", "Assistant"} -> "assistant"
    [] v \in {"user", "User"} -> "user"
    [] v = "system" -> "system"
    [] v = "tool" -> "tool"
    [] OTHER -> "unknown"

\* the role by the priority below the explicit attribute: streaming, then
\* keywords (assistant first), then the text prefix, then unknown
InferredRole(n) ==
  IF n.streaming \/ "[data-is-streaming]" \in n.anc THEN "assistant"
  ELSE IF n.testid = "assistant-message" \/ n.cls = "bot user" THEN "assistant"
  ELSE IF n.testid = "user-message" THEN "user"
  ELSE IF n.textStart = "chatgpt said" THEN "assistant"
  ELSE IF n.textStart = "you said" THEN "user"
  ELSE "unknown"

\* C35: a non-empty explicit role/author attribute decides the role alone;
\* without one the role is assistant for a streaming element, else what the
\* keywords of attribute, test id and class give (assistant first), else
\* what the text prefix gives, else unknown.
C35_RolePriority ==
  ipc = "done" =>
    irole = IF ExplicitRoles(inode) # <<>>
              THEN RoleNamed(ExplicitRoles(inode)[1])
              ELSE InferredRole(inode)

\* ------------------------------------------------------------------------
\* Properties of two runs writing at once
\* ------------------------------------------------------------------------

\* C36: under every interleaving of the existence checks of uniquePath and
\* the steps of writeAtomic of two runs with the same target name, the runs
\* never write the same path, and when both are over each has its own
\* complete file at its path.
C36_ConcurrentRunsApart ==
  /\ \A p, r \in Runs : (p # r /\ qtarget[p] # 0) => qtarget[p] # qtarget[r]
  /\ (\A p \in Runs : qpc[p] \in {"done", "failed"}) =>
       \A p \in Runs : qpc[p] = "done" /\ qfs[qtarget[p]] = p

\* ------------------------------------------------------------------------
\* Properties of the messages of a page
\* ------------------------------------------------------------------------

\* C38: an element gives at most one message even when several selectors
\* match it, and no text is emitted twice in the Markdown when one matched
\* element lies inside another.
C38_OneMessagePerTurn ==
  upc = "done" =>
    /\ \A i, j \in 1..Len(unodes) : unodes[i] = unodes[j] => i = j
    /\ \A i, j \in 1..Len(umd) : umd[i] = umd[j] => i = j

\* ------------------------------------------------------------------------
\* Properties of parseArgs
\* ------------------------------------------------------------------------

\* the command line holds the flag
HasFlag(w) == \E k \in 1..Len(argv) : argv[k] = w

\* C39: whatever the order of the flags, parseArgs throws on every command
\* line that holds both --html-only and --md-only, or both --html-only and
\* --no-html; and every command line it accepts leaves Markdown or HTML to
\* be produced.
C39_ConflictsRejected ==
  /\ apc \in {"main", "resolved", "failed"} =>
       /\ ~(HasFlag("--html-only") /\ HasFlag("--md-only"))
       /\ ~(HasFlag("--html-only") /\ HasFlag("--no-html"))
  /\ apc # "failed"
  /\ apc = "resolved" => fmts # {}

\* ------------------------------------------------------------------------
\* Properties of the two Markdown assemblies
\* ------------------------------------------------------------------------

\* C40: for the same provider, page title and list of (role, html) messages
\* the two backends give the same heading line, the same role line and the
\* same Markdown for each message, and return the same title.
C40_BackendsEquivalent ==
  epc = Backends => eout["scripted"] = eout["attached"]


\* every part before the parts added last is idle, scrape apart
EarlyIdle ==
  /\ RenderIdle /\ MarkdownIdle /\ DetectIdle
  /\ HeadingsIdle /\ TreeIdle /\ WaitsIdle /\ FilesIdle

LateIdle == PublishIdle /\ BackoffIdle /\ CleanIdle /\ RoleIdle /\ RaceIdle /\ TurnIdle /\ ArgsIdle /\ EquivIdle

MoreIdle == HeadingsIdle /\ TreeIdle /\ WaitsIdle /\ FilesIdle /\ LateIdle

Init == ScrapeInit /\ RenderIdle /\ MarkdownIdle /\ DetectIdle /\ MoreIdle

Next == ScrapeNext

Spec == Init /\ [][Next]_vars

InitRender == ScrapeIdle /\ RenderInit /\ MarkdownIdle /\ DetectIdle /\ MoreIdle

NextRender == RenderNext

SpecRender == InitRender /\ [][NextRender]_vars

InitMarkdown == ScrapeIdle /\ RenderIdle /\ MarkdownInit /\ DetectIdle /\ MoreIdle

NextMarkdown == MarkdownNext

SpecMarkdown == InitMarkdown /\ [][NextMarkdown]_vars

InitDetect == ScrapeIdle /\ RenderIdle /\ MarkdownIdle /\ DetectInit /\ MoreIdle

NextDetect == DetectNext

SpecDetect == InitDetect /\ [][NextDetect]_vars

InitHeadings ==
  /\ ScrapeIdle /\ RenderIdle /\ MarkdownIdle /\ DetectIdle
  /\ HeadingsInit /\ TreeIdle /\ WaitsIdle /\ FilesIdle /\ LateIdle

NextHeadings == HeadingsNext

SpecHeadings == InitHeadings /\ [][NextHeadings]_vars

InitTree ==
  /\ ScrapeIdle /\ RenderIdle /\ MarkdownIdle /\ DetectIdle
  /\ HeadingsIdle /\ TreeInit /\ WaitsIdle /\ FilesIdle /\ LateIdle

NextTree == TreeNext

SpecTree == InitTree /\ [][NextTree]_vars

InitWaits ==
  /\ ScrapeIdle /\ RenderIdle /\ MarkdownIdle /\ DetectIdle
  /\ HeadingsIdle /\ TreeIdle /\ WaitsInit /\ FilesIdle /\ LateIdle

NextWaits == WaitsNext

SpecWaits == InitWaits /\ [][NextWaits]_vars

InitFiles ==
  /\ ScrapeIdle /\ RenderIdle /\ MarkdownIdle /\ DetectIdle
  /\ HeadingsIdle /\ TreeIdle /\ WaitsIdle /\ FilesInit /\ LateIdle

NextFiles == FilesNext

SpecFiles == InitFiles /\ [][NextFiles]_vars

InitPublish == ScrapeIdle /\ EarlyIdle /\ PublishInit /\ BackoffIdle /\ CleanIdle /\ RoleIdle /\ RaceIdle /\ TurnIdle /\ ArgsIdle /\ EquivIdle

NextPublish == PublishNext

SpecPublish == InitPublish /\ [][NextPublish]_vars
InitBackoff == ScrapeIdle /\ EarlyIdle /\ PublishIdle /\ BackoffInit /\ CleanIdle /\ RoleIdle /\ RaceIdle /\ TurnIdle /\ ArgsIdle /\ EquivIdle

NextBackoff == BackoffNext

SpecBackoff == InitBackoff /\ [][NextBackoff]_vars
InitClean == ScrapeIdle /\ EarlyIdle /\ PublishIdle /\ BackoffIdle /\ CleanInit /\ RoleIdle /\ RaceIdle /\ TurnIdle /\ ArgsIdle /\ EquivIdle

NextClean == CleanNext

SpecClean == InitClean /\ [][NextClean]_vars
InitRole == ScrapeIdle /\ EarlyIdle /\ PublishIdle /\ BackoffIdle /\ CleanIdle /\ RoleInit /\ RaceIdle /\ TurnIdle /\ ArgsIdle /\ EquivIdle

NextRole == RoleNext

SpecRole == InitRole /\ [][NextRole]_vars
InitRace == ScrapeIdle /\ EarlyIdle /\ PublishIdle /\ BackoffIdle /\ CleanIdle /\ RoleIdle /\ RaceInit /\ TurnIdle /\ ArgsIdle /\ EquivIdle

NextRace == RaceNext

SpecRace == InitRace /\ [][NextRace]_vars
InitTurn == ScrapeIdle /\ EarlyIdle /\ PublishIdle /\ BackoffIdle /\ CleanIdle /\ RoleIdle /\ RaceIdle /\ TurnInit /\ ArgsIdle /\ EquivIdle

NextTurn == TurnNext

SpecTurn == InitTurn /\ [][NextTurn]_vars
InitArgs == ScrapeIdle /\ EarlyIdle /\ PublishIdle /\ BackoffIdle /\ CleanIdle /\ RoleIdle /\ RaceIdle /\ TurnIdle /\ ArgsInit /\ EquivIdle

NextArgs == ArgsNext

SpecArgs == InitArgs /\ [][NextArgs]_vars
InitEquiv == ScrapeIdle /\ EarlyIdle /\ PublishIdle /\ BackoffIdle /\ CleanIdle /\ RoleIdle /\ RaceIdle /\ TurnIdle /\ ArgsIdle /\ EquivInit

NextEquiv == EquivNext

SpecEquiv == InitEquiv /\ [][NextEquiv]_vars
====
